---- MODULE Spec2Model ----
(***************************************************************************)
(* Model of the screenshot productivity pipeline of the Streamlit clients  *)
(* (streamlit_v1.py, streamlit_v2.py, streamlitwraw_v4.py):                *)
(*   - the image cascade preprocessor (compress_image),                    *)
(*   - the Step Functions poller (poll_execution_status),                  *)
(*   - the structured extractor (extract_json_from_markdown),              *)
(*   - the submit / poll / reconstruct flow (trigger_analysis).            *)
(*                                                                         *)
(* Text is a sequence of characters.  A few multi-character units that the *)
(* code only ever handles as a whole are one element of the alphabet:      *)
(* "FENCE" is three backticks, "NL" a newline, "SP" a space, "QUOTE" a     *)
(* double quote, "ESC_NL" and "ESC_QUOTE" the two-character JSON escapes   *)
(* backslash-n and backslash-quote, and words such as "json" or "Editor".  *)
(***************************************************************************)
EXTENDS Integers, Sequences, FiniteSets, TLC

VARIABLES
    xin, xout, xagain, xpc,            \* extractor: input, result, re-extraction, position
    img, cbuf, cpc,                    \* preprocessor: uploaded image, returned buffer, position
    sessions, version, max_attempts, delay,
    ppc, attempt, queries, waits, slept, allRunning, last, presult,
    tpc, tinput, posts, http, tresult, errors,  \* trigger_analysis; st.error calls
    mpc, verified,                     \* main: position, verify_png_format's answer
    lam, visual, stage, spc, received, full_response, consumed,
    activity_pattern, productivity_assessment, execution  \* the workflow's stages

xvars == <<xin, xout, xagain, xpc>>
cvars == <<img, cbuf, cpc>>
pvars == <<sessions, version, max_attempts, delay, ppc, attempt, queries, waits,
           slept, allRunning, last, presult>>
tvars == <<tpc, tinput, posts, http, tresult, errors>>
mvars == <<mpc, verified>>
svars == <<lam, visual, stage, spc, received, full_response, consumed,
           activity_pattern, productivity_assessment, execution>>
vars == <<xvars, cvars, pvars, tvars, mvars, svars>>

(***************************************************************************)
(* Sequence helpers standing for Python's str methods.                     *)
(***************************************************************************)

\* s[from-1:] in Python terms: the suffix starting at 1-based index from.
Drop(s, from) == IF from > Len(s) THEN <<>> ELSE SubSeq(s, from, Len(s))

\* s[:upto] in Python terms: the prefix of the first upto elements.
Take(s, upto) == IF upto <= 0 THEN <<>> ELSE SubSeq(s, 1, IF upto > Len(s) THEN Len(s) ELSE upto)

MatchAt(s, pat, i) ==
    /\ i >= 1
    /\ i + Len(pat) - 1 <= Len(s)
    /\ \A k \in 1..Len(pat) : s[i + k - 1] = pat[k]

\* str.find: the 1-based index of the first occurrence of pat, 0 when absent
\* (Python's -1).
Find(s, pat) ==
    LET hits == {i \in 1..Len(s) : MatchAt(s, pat, i)}
    IN IF hits = {} THEN 0 ELSE CHOOSE i \in hits : \A j \in hits : i <= j

\* str.rfind: the 1-based index of the last occurrence of pat, 0 when absent.
RFind(s, pat) ==
    LET hits == {i \in 1..Len(s) : MatchAt(s, pat, i)}
    IN IF hits = {} THEN 0 ELSE CHOOSE i \in hits : \A j \in hits : i >= j

IsSpace(c) == c \in {"SP", "NL"}

RECURSIVE LStrip(_)
LStrip(s) == IF s # <<>> /\ IsSpace(Head(s)) THEN LStrip(Tail(s)) ELSE s

RECURSIVE RStrip(_)
RStrip(s) ==
    IF s # <<>> /\ IsSpace(s[Len(s)]) THEN RStrip(SubSeq(s, 1, Len(s) - 1)) ELSE s

\* str.strip()
Strip(s) == RStrip(LStrip(s))

\* str.lstrip('\n')
RECURSIVE LStripNL(_)
LStripNL(s) == IF s # <<>> /\ Head(s) = "NL" THEN LStripNL(Tail(s)) ELSE s

(***************************************************************************)
(* JSON values.  Every value is a record of the same four fields, so that  *)
(* any two values can be compared: t is the Python type, n the number, s   *)
(* the characters of a string (or of a member's key), kids the elements of *)
(* a list or the members of a dict in insertion order.                     *)
(***************************************************************************)
JNull == [t |-> "None", n |-> 0, s |-> <<>>, kids |-> <<>>]
JTrue == [t |-> "bool", n |-> 1, s |-> <<>>, kids |-> <<>>]
JFalse == [t |-> "bool", n |-> 0, s |-> <<>>, kids |-> <<>>]
JNum(n) == [t |-> "int", n |-> n, s |-> <<>>, kids |-> <<>>]
JStr(s) == [t |-> "str", n |-> 0, s |-> s, kids |-> <<>>]
JList(kids) == [t |-> "list", n |-> 0, s |-> <<>>, kids |-> kids]
JMember(k, v) == [t |-> "member", n |-> 0, s |-> k, kids |-> <<v>>]
JDict(members) == [t |-> "dict", n |-> 0, s |-> <<>>, kids |-> members]
EmptyDict == JDict(<<>>)

IsDict(v) == v.t = "dict"

\* key in d
HasKey(d, k) == \E i \in 1..Len(d.kids) : d.kids[i].s = k

\* d[k], for a key that is present
GetKey(d, k) == (d.kids[CHOOSE i \in 1..Len(d.kids) : d.kids[i].s = k]).kids[1]

\* d.get(k, default)
GetOr(d, k, default) == IF HasKey(d, k) THEN GetKey(d, k) ELSE default

\* d[k] = v on a dict under construction: a repeated key keeps its place and
\* takes the later value.
DictSet(members, k, v) ==
    IF \E i \in 1..Len(members) : members[i].s = k
    THEN [i \in 1..Len(members) |->
            IF members[i].s = k THEN JMember(k, v) ELSE members[i]]
    ELSE Append(members, JMember(k, v))

(***************************************************************************)
(* json.loads: a recursive-descent parser over the characters.             *)
(***************************************************************************)
ParseFail == [ok |-> FALSE, val |-> JNull, next |-> 0]
ParseOk(v, next) == [ok |-> TRUE, val |-> v, next |-> next]

RECURSIVE SkipWs(_, _)
SkipWs(t, i) == IF i <= Len(t) /\ IsSpace(t[i]) THEN SkipWs(t, i + 1) ELSE i

\* The body of a string literal from position i (just after the opening
\* quote): characters up to the closing quote, escapes decoded.  A raw newline
\* or the end of the text inside the literal is an error.
RECURSIVE ScanString(_, _, _)
ScanString(t, i, acc) ==
    IF i > Len(t) THEN ParseFail
    ELSE IF t[i] = "QUOTE" THEN ParseOk(JStr(acc), i + 1)
    ELSE IF t[i] = "NL" THEN ParseFail
    ELSE IF t[i] = "ESC_NL" THEN ScanString(t, i + 1, Append(acc, "NL"))
    ELSE IF t[i] = "ESC_QUOTE" THEN ScanString(t, i + 1, Append(acc, "QUOTE"))
    ELSE ScanString(t, i + 1, Append(acc, t[i]))

\* A run of the digit "1" from position i: the number read so far is acc.
RECURSIVE ScanNumber(_, _, _)
ScanNumber(t, i, acc) ==
    IF i <= Len(t) /\ t[i] = "1" THEN ScanNumber(t, i + 1, 10 * acc + 1)
    ELSE ParseOk(JNum(acc), i)

RECURSIVE ParseValue(_, _)
RECURSIVE ParseMembers(_, _, _)
RECURSIVE ParseElements(_, _, _)

\* One value starting at position i (leading whitespace skipped).
ParseValue(t, i0) ==
    LET i == SkipWs(t, i0) IN
    IF i > Len(t) THEN ParseFail
    ELSE IF t[i] = "QUOTE" THEN ScanString(t, i + 1, <<>>)
    ELSE IF t[i] = "1" THEN ScanNumber(t, i, 0)
    ELSE IF t[i] = "null" THEN ParseOk(JNull, i + 1)
    ELSE IF t[i] = "true" THEN ParseOk(JTrue, i + 1)
    ELSE IF t[i] = "false" THEN ParseOk(JFalse, i + 1)
    ELSE IF t[i] = "{" THEN
        LET j == SkipWs(t, i + 1) IN
        IF j <= Len(t) /\ t[j] = "}" THEN ParseOk(EmptyDict, j + 1)
        ELSE ParseMembers(t, j, <<>>)
    ELSE IF t[i] = "[" THEN
        LET j == SkipWs(t, i + 1) IN
        IF j <= Len(t) /\ t[j] = "]" THEN ParseOk(JList(<<>>), j + 1)
        ELSE ParseElements(t, j, <<>>)
    ELSE ParseFail

\* The members of an object from position i (at a key), acc the members so far.
ParseMembers(t, i0, acc) ==
    LET i == SkipWs(t, i0) IN
    IF i > Len(t) \/ t[i] # "QUOTE" THEN ParseFail
    ELSE
        LET key == ScanString(t, i + 1, <<>>) IN
        IF ~key.ok THEN ParseFail
        ELSE
            LET c == SkipWs(t, key.next) IN
            IF c > Len(t) \/ t[c] # ":" THEN ParseFail
            ELSE
                LET v == ParseValue(t, c + 1) IN
                IF ~v.ok THEN ParseFail
                ELSE
                    LET e == SkipWs(t, v.next)
                        members == DictSet(acc, key.val.s, v.val)
                    IN
                    IF e > Len(t) THEN ParseFail
                    ELSE IF t[e] = "}" THEN ParseOk(JDict(members), e + 1)
                    ELSE IF t[e] = "," THEN ParseMembers(t, e + 1, members)
                    ELSE ParseFail

\* The elements of an array from position i (at a value), acc the elements so far.
ParseElements(t, i, acc) ==
    LET v == ParseValue(t, i) IN
    IF ~v.ok THEN ParseFail
    ELSE
        LET e == SkipWs(t, v.next)
            elems == Append(acc, v.val)
        IN
        IF e > Len(t) THEN ParseFail
        ELSE IF t[e] = "]" THEN ParseOk(JList(elems), e + 1)
        ELSE IF t[e] = "," THEN ParseElements(t, e + 1, elems)
        ELSE ParseFail

\* json.loads(text): ok is FALSE where Python raises JSONDecodeError (no value,
\* a malformed value, or data after the value).
json_loads(t) ==
    LET v == ParseValue(t, 1) IN
    IF v.ok /\ SkipWs(t, v.next) > Len(t) THEN v ELSE ParseFail

(***************************************************************************)
(* json.dumps with the default separators (", " and ": ").                 *)
(***************************************************************************)
RECURSIVE EncodeChars(_)
EncodeChars(s) ==
    IF s = <<>> THEN <<>>
    ELSE (IF Head(s) = "NL" THEN <<"ESC_NL">>
          ELSE IF Head(s) = "QUOTE" THEN <<"ESC_QUOTE">>
          ELSE <<Head(s)>>) \o EncodeChars(Tail(s))

RECURSIVE Digits(_)
Digits(n) == IF n < 10 THEN <<"1">> ELSE Digits(n \div 10) \o <<"1">>

RECURSIVE json_dumps(_)
RECURSIVE DumpItems(_, _)
json_dumps(v) ==
    IF v.t = "None" THEN <<"null">>
    ELSE IF v.t = "bool" THEN (IF v.n = 1 THEN <<"true">> ELSE <<"false">>)
    ELSE IF v.t = "int" THEN Digits(v.n)
    ELSE IF v.t = "str" THEN <<"QUOTE">> \o EncodeChars(v.s) \o <<"QUOTE">>
    ELSE IF v.t = "list" THEN <<"[">> \o DumpItems(v.kids, 1) \o <<"]">>
    ELSE IF v.t = "dict" THEN <<"{">> \o DumpItems(v.kids, 1) \o <<"}">>
    ELSE <<"QUOTE">> \o EncodeChars(v.s) \o <<"QUOTE", ":", "SP">> \o json_dumps(v.kids[1])

DumpItems(kids, i) ==
    IF i > Len(kids) THEN <<>>
    ELSE json_dumps(kids[i])
         \o (IF i < Len(kids) THEN <<",", "SP">> ELSE <<>>)
         \o DumpItems(kids, i + 1)

(***************************************************************************)
(* extract_json_from_markdown (streamlitwraw_v4.py).                       *)
(*                                                                         *)
(* The argument is a Python value: a str is JStr(characters), a dict is a  *)
(* JDict, and so on.                                                       *)
(***************************************************************************)
\* As markers, with the python fence tried first.
markers_PythonFirst == << <<"FENCE", "python", "NL">>, <<"FENCE", "json", "NL">>,
                          <<"json", "NL">>, <<"{">> >>

\* markers = ['```json\n', 'json\n', '```python\n', '{']
markers == << <<"FENCE", "json", "NL">>, <<"json", "NL">>,
              <<"FENCE", "python", "NL">>, <<"{">> >>

\* marker.startswith('```')
IsFenceMarker(marker) == marker # <<>> /\ Head(marker) = "FENCE"

\* The content taken for one marker found at index at: the text after the
\* marker, stripped, cut at the closing fence (fence markers) or at the first
\* blank line (other markers), stripped again, leading newlines removed.
MarkerContent(text, marker, at) ==
    LET content == Strip(Drop(text, at + Len(marker)))
        end_idx == IF IsFenceMarker(marker) THEN Find(content, <<"FENCE">>)
                   ELSE Find(content, <<"NL", "NL">>)
        cut == IF end_idx # 0 THEN Strip(Take(content, end_idx - 1)) ELSE content
    IN LStripNL(cut)

Returned(v) == [exc |-> "none", val |-> v]
Raised(e) == [exc |-> e, val |-> JNull]

\* As BraceFallback, with find('}') in place of rfind('}').
BraceFallback_FirstClose(text) ==
    LET first_brace == Find(text, <<"{">>)
        last_brace == Find(text, <<"}">>)
    IN IF first_brace # 0 /\ last_brace # 0
       THEN LET content == IF last_brace < first_brace THEN <<>>
                           ELSE SubSeq(text, first_brace, last_brace)
                r == json_loads(content)
            IN IF r.ok THEN Returned(r.val) ELSE Raised("JSONDecodeError")
       ELSE Returned(EmptyDict)

\* The statements after the marker loop: the span from the first '{' to the
\* last '}' of the whole input is parsed outside the inner try, so a
\* JSONDecodeError here leaves the function body.
BraceFallback(text) ==
    LET first_brace == Find(text, <<"{">>)
        last_brace == RFind(text, <<"}">>)
    IN IF first_brace # 0 /\ last_brace # 0
       THEN LET content == IF last_brace < first_brace THEN <<>>
                           ELSE SubSeq(text, first_brace, last_brace)
                r == json_loads(content)
            IN IF r.ok THEN Returned(r.val) ELSE Raised("JSONDecodeError")
       ELSE Returned(EmptyDict)

\* As TryMarkers, returning the content itself instead of its parse.
RECURSIVE TryMarkers_ReturnsContent(_, _)
TryMarkers_ReturnsContent(text, k) ==
    IF k > Len(markers) THEN BraceFallback(text)
    ELSE
        LET json_marker == Find(text, markers[k]) IN
        IF json_marker = 0 THEN TryMarkers_ReturnsContent(text, k + 1)
        ELSE
            LET content == MarkerContent(text, markers[k], json_marker) IN
            IF json_loads(content).ok THEN Returned(JStr(content))
            ELSE TryMarkers_ReturnsContent(text, k + 1)

\* The marker loop from marker k on: the first marker that is present and whose
\* content parses decides; a JSONDecodeError moves on to the next marker.
RECURSIVE TryMarkers(_, _)
TryMarkers(text, k) ==
    IF k > Len(markers) THEN BraceFallback(text)
    ELSE
        LET json_marker == Find(text, markers[k]) IN
        IF json_marker = 0 THEN TryMarkers(text, k + 1)
        ELSE
            LET r == json_loads(MarkerContent(text, markers[k], json_marker)) IN
            IF r.ok THEN Returned(r.val) ELSE TryMarkers(text, k + 1)

\* As ExtractBody, without the isinstance(raw_response, dict) shortcut.
ExtractBody_NoDictShortcut(raw_response) ==
    IF raw_response.t # "str" THEN Raised("AttributeError")
    ELSE TryMarkers(raw_response.s, 1)

\* The body of the outer try: what it returns, or the exception it raises.  A
\* value that is neither a dict nor a str has no find method.
ExtractBody(raw_response) ==
    IF IsDict(raw_response) THEN Returned(raw_response)
    ELSE IF raw_response.t # "str" THEN Raised("AttributeError")
    ELSE TryMarkers(raw_response.s, 1)

\* As extract_json_from_markdown, with `except json.JSONDecodeError` in place
\* of `except Exception`.
extract_json_from_markdown_NarrowExcept(raw_response) ==
    LET r == ExtractBody(raw_response) IN
    IF r.exc = "none" THEN [raised |-> FALSE, val |-> r.val]
    ELSE IF r.exc = "JSONDecodeError" THEN [raised |-> FALSE, val |-> EmptyDict]
    ELSE [raised |-> TRUE, val |-> JNull]

\* The whole function: `except Exception` turns every exception of the body
\* into the empty dict.  raised tells whether an exception leaves the function.
extract_json_from_markdown(raw_response) ==
    LET r == ExtractBody(raw_response) IN
    IF r.exc = "none" THEN [raised |-> FALSE, val |-> r.val]
    ELSE [raised |-> FALSE, val |-> EmptyDict]

(***************************************************************************)
(* The extractor applied to bounded inputs.                                *)
(***************************************************************************)
\* The longest input text, in fragments.
MaxFrags == 3

\* Pieces of model output: prose, fence lines, blank lines, JSON pieces.
Frags == {
    <<"no", "SP", "data", "SP", "here">>,
    <<"Some", "SP", "text", "SP">>,
    <<"FENCE", "json", "NL">>,
    <<"FENCE", "python", "NL">>,
    <<"json", "NL">>,
    <<"FENCE">>,
    <<"NL">>,
    <<"NL", "NL">>,
    <<"{">>,
    <<"}">>,
    <<"QUOTE", "a", "QUOTE">>,
    <<":", "1">>,
    <<"[", "1", "]">>,
    <<"{", "QUOTE", "a", "QUOTE", ":", "1", "}">> }

RECURSIVE Concat(_)
Concat(ss) == IF ss = <<>> THEN <<>> ELSE Head(ss) \o Concat(Tail(ss))

Texts == {Concat(ss) : ss \in UNION {[1..n -> Frags] : n \in 0..MaxFrags}}

\* JSON values that occur as members of the objects below: a number, strings
\* (one holding a fence, a brace, a newline), null, a list, nested objects.
Leaves == {
    JNum(1), JNull,
    JStr(<<"a">>), JStr(<<"FENCE">>), JStr(<<"}">>), JStr(<<"{">>),
    JStr(<<"json", "NL">>),
    JList(<<JNum(1)>>),
    EmptyDict,
    JDict(<<JMember(<<"b">>, JNum(1))>>) }

Objects ==
    {EmptyDict}
    \cup {JDict(<<JMember(<<"a">>, v)>>) : v \in Leaves}
    \cup {JDict(<<JMember(<<"a">>, v), JMember(<<"b">>, w)>>) : v, w \in Leaves}

\* "```json\n" + json.dumps(X) + "\n```"
Fenced(X) == <<"FENCE", "json", "NL">> \o json_dumps(X) \o <<"NL", "FENCE">>

\* Arguments that are not text: records, and values of other Python types.
NonText == Objects \cup {JNull, JNum(1), JList(<<JNum(1)>>), JTrue}

\* Model output with two markers: a python fence and then a line "json", each
\* before a JSON value of its own; a line "json" before something that is not
\* JSON, a blank line and a python fence before a JSON value.
TwoMarkerTexts == {
    <<"FENCE", "python", "NL", "[", "1", "]", "NL", "FENCE", "NL",
      "json", "NL", "{", "QUOTE", "a", "QUOTE", ":", "1", "}">>,
    <<"json", "NL", ":", "1", "NL", "NL",
      "FENCE", "python", "NL", "[", "1", "]", "NL", "FENCE">> }

\* Objects serialized with blank lines between their tokens.
SpacedObjectTexts == {
    <<"{", "QUOTE", "a", "QUOTE", "NL", "NL", ":", "1", "}">>,
    <<"{", "NL", "NL", "QUOTE", "a", "QUOTE", ":", "1", "}">>,
    <<"{", "QUOTE", "a", "QUOTE", ":", "{", "QUOTE", "b", "QUOTE", ":", "1", "}", "NL", "NL", "}">> }

ExtractInputs ==
    {JStr(t) : t \in Texts \cup TwoMarkerTexts \cup SpacedObjectTexts}
    \cup {JStr(Fenced(X)) : X \in Objects} \cup NonText

NoResult == [raised |-> FALSE, val |-> JNull]

XIdle == xin = JNull /\ xout = NoResult /\ xagain = NoResult /\ xpc = "idle"

XInit == xin \in ExtractInputs /\ xout = NoResult /\ xagain = NoResult /\ xpc = "call"

\* result = extract_json_from_markdown(x)
Extract ==
    /\ xpc = "call"
    /\ xout' = extract_json_from_markdown(xin)
    /\ xpc' = "returned"
    /\ UNCHANGED <<xin, xagain, cvars, pvars, tvars, mvars, svars>>

\* extract_json_from_markdown(result): the extractor applied to its own result
ExtractAgain ==
    /\ xpc = "returned"
    /\ ~xout.raised
    /\ xagain' = extract_json_from_markdown(xout.val)
    /\ xpc' = "done"
    /\ UNCHANGED <<xin, xout, cvars, pvars, tvars, mvars, svars>>

(***************************************************************************)
(* The image cascade preprocessor (streamlit_v2.py, streamlitwraw_v4.py).  *)
(*                                                                         *)
(* An uploaded image is what the code reads of it: whether PIL can decode  *)
(* it, its colour mode, whether getbbox() finds content, and the byte size *)
(* of each PNG encode the cascade may ask the encoder for.                 *)
(***************************************************************************)
\* `if final_size > 250000` and `len(buffer.getvalue()) <= 250000`
SIZE_LIMIT == 250000

\* `if size_in_bytes > 262000` (validate_input) and `if base64_size > 262000` (main)
CEILING == 262000

\* len(base64.b64encode(bytes_data)) for bytes_data of n bytes
Base64Len(n) == 4 * ((n + 2) \div 3)

\* Sizes an encode can have: the largest whose base64 text fits the ceiling,
\* the next one, the internal limit, and the next one.
EncSizes == {196500, 196501, 250000, 250001}

Modes == {"RGB", "RGBA", "P", "L"}

Images ==
    [decodable : BOOLEAN, mode : Modes, hasBBox : BOOLEAN,
     enc500 : EncSizes, enc400 : EncSizes, enc300 : EncSizes, enc200 : EncSizes,
     encL : EncSizes]

NoBuffer == [kind |-> "None", size |-> 0, mode |-> "", format |-> "", steps |-> <<>>]
\* As Buffer, for img.save(buffer, format="JPEG").
Buffer_Jpeg(size, mode, steps) ==
    [kind |-> "buffer", size |-> size, mode |-> mode, format |-> "JPEG", steps |-> steps]

\* A buffer written by img.save(buffer, format="PNG", ...)
Buffer(size, mode, steps) ==
    [kind |-> "buffer", size |-> size, mode |-> mode, format |-> "PNG", steps |-> steps]

\* As aggressive_compress, for the sizes in the order 200, 300, 400.
aggressive_compress_SmallestFirst(im, mode, steps) ==
    LET s200 == steps \o <<"copy", "thumbnail200", "save200">>
        s300 == s200 \o <<"copy", "thumbnail300", "save300">>
        s400 == s300 \o <<"copy", "thumbnail400", "save400">>
    IN IF im.enc200 <= SIZE_LIMIT THEN Buffer(im.enc200, mode, s200)
       ELSE IF im.enc300 <= SIZE_LIMIT THEN Buffer(im.enc300, mode, s300)
       ELSE IF im.enc400 <= SIZE_LIMIT THEN Buffer(im.enc400, mode, s400)
       ELSE [NoBuffer EXCEPT !.steps = s400]

\* aggressive_compress(img): the first of the 400, 300, 200 encodes within the
\* limit, with the steps taken; kind "None" when none fits.
aggressive_compress(im, mode, steps) ==
    LET s400 == steps \o <<"copy", "thumbnail400", "save400">>
        s300 == s400 \o <<"copy", "thumbnail300", "save300">>
        s200 == s300 \o <<"copy", "thumbnail200", "save200">>
    IN IF im.enc400 <= SIZE_LIMIT THEN Buffer(im.enc400, mode, s400)
       ELSE IF im.enc300 <= SIZE_LIMIT THEN Buffer(im.enc300, mode, s300)
       ELSE IF im.enc200 <= SIZE_LIMIT THEN Buffer(im.enc200, mode, s200)
       ELSE [NoBuffer EXCEPT !.steps = s200]

\* As compress_image, converting to grayscale as soon as the 500x500 encode
\* is over the limit, without the downscale loop.
compress_image_GrayscaleFirst(im) ==
    IF ~im.decodable THEN NoBuffer
    ELSE
        LET mode == IF im.mode \notin {"RGBA", "RGB"} THEN "RGB" ELSE im.mode
            s0 == <<"open">>
                  \o (IF im.mode \notin {"RGBA", "RGB"} THEN <<"convertRGB">> ELSE <<>>)
                  \o (IF im.hasBBox THEN <<"crop">> ELSE <<>>)
                  \o <<"thumbnail500", "save500">>
        IN IF im.enc500 > SIZE_LIMIT
           THEN Buffer(im.encL, "L", s0 \o <<"convertL", "saveL">>)
           ELSE Buffer(im.enc500, mode, s0)

\* compress_image(uploaded_file)
compress_image(im) ==
    IF ~im.decodable THEN NoBuffer
    ELSE
        LET mode == IF im.mode \notin {"RGBA", "RGB"} THEN "RGB" ELSE im.mode
            s0 == <<"open">>
                  \o (IF im.mode \notin {"RGBA", "RGB"} THEN <<"convertRGB">> ELSE <<>>)
                  \o (IF im.hasBBox THEN <<"crop">> ELSE <<>>)
                  \o <<"thumbnail500", "save500">>
        IN IF im.enc500 > SIZE_LIMIT
           THEN LET compressed_buffer == aggressive_compress(im, mode, s0) IN
                IF compressed_buffer.kind = "buffer" THEN compressed_buffer
                ELSE Buffer(im.encL, "L", compressed_buffer.steps \o <<"convertL", "saveL">>)
           ELSE Buffer(im.enc500, mode, s0)

CIdle == img = [decodable |-> FALSE, mode |-> "RGB", hasBBox |-> FALSE,
                enc500 |-> 196500, enc400 |-> 196500, enc300 |-> 196500,
                enc200 |-> 196500, encL |-> 196500]
         /\ cbuf = NoBuffer /\ cpc = "idle"

CInit == img \in Images /\ cbuf = NoBuffer /\ cpc = "call"

\* compressed_file = compress_image(uploaded_file)
Compress ==
    /\ cpc = "call"
    /\ cbuf' = compress_image(img)
    /\ cpc' = "done"
    /\ UNCHANGED <<img, xvars, pvars, tvars, mvars, svars>>

(***************************************************************************)
(* poll_execution_status.  streamlit_v1.py and streamlit_v2.py hold the    *)
(* same poller ("v2"); streamlitwraw_v4.py ("v4") decodes the output and   *)
(* defaults the error text.                                                *)
(*                                                                         *)
(* Every session (one call, one execution ARN) owns its loop state, so the *)
(* poller's variables are functions of the session.                        *)
(***************************************************************************)
Versions == {"v2", "v4"}

\* def poll_execution_status(execution_arn, max_attempts=30, delay=2)
DefaultMaxAttempts == 30
DefaultDelay == 2

\* The largest max_attempts and delay a session is started with when the
\* poller is exercised on its own.
MaxAttempts == 6
MaxDelay == 2

Str(w) == JStr(<<w>>)

\* Statuses of describe_execution that the poller does not treat as terminal.
NonTerminal == {"RUNNING", "PENDING_REDRIVE"}
FailureMarkers == {"FAILED", "TIMED_OUT", "ABORTED"}

\* What one stage of the workflow output can be: a record holding the model's
\* text, a record holding a structured payload, a record holding neither, or
\* plain text.
ScenarioText ==
    <<"Some", "SP", "text", "SP", "FENCE", "json", "NL",
      "{", "QUOTE", "applications", "QUOTE", ":", "[", "QUOTE", "Editor", "QUOTE", "]", "}",
      "NL", "FENCE">>
ScenarioRecord == JDict(<<JMember(<<"applications">>, JList(<<Str("Editor")>>))>>)
MessagePayload == JDict(<<JMember(<<"message">>, Str("text"))>>)

StageValues == {
    JDict(<<JMember(<<"raw_response">>, JStr(ScenarioText))>>),
    JDict(<<JMember(<<"raw_response">>, JStr(<<"no", "SP", "data", "SP", "here">>))>>),
    JDict(<<JMember(<<"output">>, MessagePayload)>>),
    JDict(<<JMember(<<"error">>, Str("text"))>>),
    Str("text") }

StageNames == <<"visual_analysis", "activity_pattern", "productivity_assessment">>

\* Stands for a stage that the workflow output does not hold.
Absent == [t |-> "absent", n |-> 0, s |-> <<>>, kids |-> <<>>]

\* The workflow output with the given stage values; Absent leaves a stage out.
WorkflowOutput(v, a, p) ==
    JDict((IF v = Absent THEN <<>> ELSE <<JMember(<<StageNames[1]>>, v)>>)
          \o (IF a = Absent THEN <<>> ELSE <<JMember(<<StageNames[2]>>, a)>>)
          \o (IF p = Absent THEN <<>> ELSE <<JMember(<<StageNames[3]>>, p)>>))

StageChoices == StageValues \cup {Absent}

\* The 'output' of a SUCCEEDED execution as the service sends it: JSON text of a
\* workflow output, JSON text of something else, or text that is not JSON.
OutputTexts ==
    {json_dumps(WorkflowOutput(v, Absent, Absent)) : v \in StageChoices}
    \cup {json_dumps(WorkflowOutput(Absent, a, Absent)) : a \in StageChoices}
    \cup {json_dumps(WorkflowOutput(Absent, Absent, q)) : q \in StageChoices}
    \cup {json_dumps(WorkflowOutput(v, v, v)) : v \in StageValues}
    \cup {<<"null">>, <<"[", "1", "]">>, <<"Some", "SP", "text">>, <<>>}

Response(exc, hasStatus, status, hasOutput, output, hasError, error) ==
    [exc |-> exc, hasStatus |-> hasStatus, status |-> status,
     hasOutput |-> hasOutput, output |-> output, hasError |-> hasError, error |-> error]

NoResponse == Response(JNull, FALSE, "", FALSE, JNull, FALSE, JNull)

\* What describe_execution can do on one call: raise, or answer with a status
\* and, by status, an output or an error detail (either may be missing).
Responses ==
    {Response(Str(e), FALSE, "", FALSE, JNull, FALSE, JNull) :
        e \in {"ConnectTimeout", "ThrottlingException"}}
    \cup {NoResponse}
    \cup {Response(JNull, TRUE, st, FALSE, JNull, FALSE, JNull) : st \in NonTerminal}
    \cup {Response(JNull, TRUE, "SUCCEEDED", TRUE, JStr(o), FALSE, JNull) : o \in OutputTexts}
    \cup {Response(JNull, TRUE, "SUCCEEDED", FALSE, JNull, FALSE, JNull),
          Response(JNull, TRUE, "SUCCEEDED", TRUE, JNull, FALSE, JNull)}
    \cup {Response(JNull, TRUE, st, FALSE, JNull, TRUE, Str("States.TaskFailed")) :
            st \in FailureMarkers}
    \cup {Response(JNull, TRUE, st, FALSE, JNull, FALSE, JNull) : st \in FailureMarkers}

Outcome(status, output, error) == [status |-> status, output |-> output, error |-> error]
NoOutcome == Outcome("", JNull, JNull)

Return(o) == [returns |-> TRUE, result |-> o]
Continue == [returns |-> FALSE, result |-> NoOutcome]

\* The body of `except Exception as e`: the session ends with str(e).
PollExcept(text) == Return(Outcome("ERROR", JNull, text))

\* As PollSucceeded, with the text as received returned when it does not
\* decode.
PollSucceeded_RawOnError(ver, r) ==
    IF ver = "v4"
    THEN LET output == IF r.hasOutput THEN r.output ELSE JStr(<<"{", "}">>) IN
         IF output.t # "str" THEN PollExcept(Str("the JSON object must be str, bytes or bytearray, not NoneType"))
         ELSE LET parsed_output == json_loads(output.s) IN
              IF parsed_output.ok
              THEN Return(Outcome("SUCCEEDED", parsed_output.val, JNull))
              ELSE Return(Outcome("SUCCEEDED", output, JNull))
    ELSE Return(Outcome("SUCCEEDED", IF r.hasOutput THEN r.output ELSE JNull, JNull))

\* The SUCCEEDED branch.  v4 decodes response.get('output', '{}'): text that
\* is not JSON gives 'ERROR'; an output that is not text makes json.loads
\* raise TypeError, which the outer handler takes.  v2 returns
\* response.get('output') as it is.
PollSucceeded(ver, r) ==
    IF ver = "v4"
    THEN LET output == IF r.hasOutput THEN r.output ELSE JStr(<<"{", "}">>) IN
         IF output.t # "str" THEN PollExcept(Str("the JSON object must be str, bytes or bytearray, not NoneType"))
         ELSE LET parsed_output == json_loads(output.s) IN
              IF parsed_output.ok
              THEN Return(Outcome("SUCCEEDED", parsed_output.val, JNull))
              ELSE Return(Outcome("ERROR", JNull, Str("Invalid JSON output")))
    ELSE Return(Outcome("SUCCEEDED", IF r.hasOutput THEN r.output ELSE JNull, JNull))

\* As PollFailed, never reading the reported error detail.
PollFailed_DropsDetail(ver, r) ==
    Return(Outcome(r.status, JNull, IF ver = "v4" THEN Str("Unknown error") ELSE JNull))

\* The FAILED / TIMED_OUT / ABORTED branch: v4 reads response.get('error',
\* 'Unknown error'), v2 response.get('error').
PollFailed(ver, r) ==
    LET error_info == IF r.hasError THEN r.error
                      ELSE IF ver = "v4" THEN Str("Unknown error") ELSE JNull
    IN Return(Outcome(r.status, JNull, error_info))

\* As poll_tick, with `except Exception: continue` in place of the return.
poll_tick_RetriesOnException(ver, r) ==
    IF r.exc # JNull THEN Continue
    ELSE IF ~r.hasStatus THEN PollExcept(Str("'status'"))
    ELSE IF r.status = "SUCCEEDED" THEN PollSucceeded(ver, r)
    ELSE IF r.status \in FailureMarkers THEN PollFailed(ver, r)
    ELSE Continue

\* As poll_tick, with 'TIMED_OUT' missing from the list of failure statuses.
poll_tick_TimedOutNotTerminal(ver, r) ==
    IF r.exc # JNull THEN PollExcept(r.exc)
    ELSE IF ~r.hasStatus THEN PollExcept(Str("'status'"))
    ELSE IF r.status = "SUCCEEDED" THEN PollSucceeded(ver, r)
    ELSE IF r.status \in FailureMarkers \ {"TIMED_OUT"} THEN PollFailed(ver, r)
    ELSE Continue

\* One pass of the loop body on the answer r of describe_execution: the value
\* returned, or Continue when the body reaches time.sleep.
poll_tick(ver, r) ==
    IF r.exc # JNull THEN PollExcept(r.exc)
    ELSE IF ~r.hasStatus THEN PollExcept(Str("'status'"))
    ELSE IF r.status = "SUCCEEDED" THEN PollSucceeded(ver, r)
    ELSE IF r.status \in FailureMarkers THEN PollFailed(ver, r)
    ELSE Continue

\* As AfterTick, with the result stored and the loop not left.
AfterTick_KeepsPolling(tick) == "sleep"

\* Where the session stands after a pass of the loop body.
AfterTick(tick) == IF tick.returns THEN "done" ELSE "sleep"

\* As LoopContinues, for `while True`.
LoopContinues_WhileTrue(i, n) == TRUE

\* As LoopContinues, for range(max_attempts + 1).
LoopContinues_OffByOne(i, n) == i <= n

\* `for _ in range(max_attempts)`: whether another pass starts.
LoopContinues(i, n) == i < n

\* The poller's state for the sessions S, none started.
PollFresh(S) ==
    /\ sessions = S
    /\ ppc = [s \in S |-> "idle"]
    /\ attempt = [s \in S |-> 0]
    /\ queries = [s \in S |-> 0]
    /\ waits = [s \in S |-> 0]
    /\ slept = [s \in S |-> 0]
    /\ allRunning = [s \in S |-> TRUE]
    /\ last = [s \in S |-> NoResponse]
    /\ presult = [s \in S |-> NoOutcome]

PIdle ==
    /\ PollFresh({})
    /\ version = "v4"
    /\ max_attempts = [s \in {} |-> 0]
    /\ delay = [s \in {} |-> 0]

\* One session called with any max_attempts and delay, in either version.
PInit ==
    /\ PollFresh({1})
    /\ version \in Versions
    /\ max_attempts \in [{1} -> 1..MaxAttempts]
    /\ delay \in [{1} -> 1..MaxDelay]

\* The sessions that poll concurrently, each for its own execution, and the
\* largest max_attempts they are started with.
ConcurrentSessions == {1, 2}
MaxAttemptsEach == 2

\* Two sessions, one called with the largest max_attempts and the other with
\* any, both with the default delay.
PInitConcurrent ==
    /\ PollFresh(ConcurrentSessions)
    /\ version \in Versions
    /\ max_attempts \in {m \in [ConcurrentSessions -> 1..MaxAttemptsEach] :
                            m[1] = MaxAttemptsEach}
    /\ delay \in [ConcurrentSessions -> {DefaultDelay}]

\* The call enters the loop.
PollStart(s) ==
    /\ ppc[s] = "idle"
    /\ ppc' = [ppc EXCEPT ![s] = "query"]
    /\ UNCHANGED <<sessions, version, max_attempts, delay, attempt, queries, waits,
                   slept, allRunning, last, presult>>

\* As PollQuery, with the attempt counter a module-level variable that every
\* session increments.
PollQuery_SharedCounter(s, r) ==
    /\ ppc[s] = "query"
    /\ LoopContinues(attempt[s], max_attempts[s])
    /\ LET tick == poll_tick(version, r) IN
        /\ attempt' = [t \in sessions |-> attempt[t] + 1]
        /\ queries' = [queries EXCEPT ![s] = @ + 1]
        /\ last' = [last EXCEPT ![s] = r]
        /\ allRunning' = [allRunning EXCEPT ![s] =
                            IF tick.returns THEN @ ELSE @ /\ r.status = "RUNNING"]
        /\ presult' = [presult EXCEPT ![s] = IF tick.returns THEN tick.result ELSE @]
        /\ ppc' = [ppc EXCEPT ![s] = AfterTick(tick)]
    /\ UNCHANGED <<sessions, version, max_attempts, delay, waits, slept>>

\* As PollQuery, with time.sleep(delay) at the top of the loop body, before
\* the query.
PollQuery_SleepFirst(s, r) ==
    /\ ppc[s] = "query"
    /\ LoopContinues(attempt[s], max_attempts[s])
    /\ LET tick == poll_tick(version, r) IN
        /\ attempt' = [attempt EXCEPT ![s] = @ + 1]
        /\ queries' = [queries EXCEPT ![s] = @ + 1]
        /\ waits' = [waits EXCEPT ![s] = @ + 1]
        /\ slept' = [slept EXCEPT ![s] = @ + delay[s]]
        /\ last' = [last EXCEPT ![s] = r]
        /\ allRunning' = [allRunning EXCEPT ![s] =
                            IF tick.returns THEN @ ELSE @ /\ r.status = "RUNNING"]
        /\ presult' = [presult EXCEPT ![s] = IF tick.returns THEN tick.result ELSE @]
        /\ ppc' = [ppc EXCEPT ![s] = IF tick.returns THEN "done" ELSE "query"]
    /\ UNCHANGED <<sessions, version, max_attempts, delay>>

\* One pass of the loop body up to its return or its time.sleep:
\* describe_execution answers r.
PollQuery(s, r) ==
    /\ ppc[s] = "query"
    /\ LoopContinues(attempt[s], max_attempts[s])
    /\ LET tick == poll_tick(version, r) IN
        /\ attempt' = [attempt EXCEPT ![s] = @ + 1]
        /\ queries' = [queries EXCEPT ![s] = @ + 1]
        /\ last' = [last EXCEPT ![s] = r]
        /\ allRunning' = [allRunning EXCEPT ![s] =
                            IF tick.returns THEN @ ELSE @ /\ r.status = "RUNNING"]
        /\ presult' = [presult EXCEPT ![s] = IF tick.returns THEN tick.result ELSE @]
        /\ ppc' = [ppc EXCEPT ![s] = AfterTick(tick)]
    /\ UNCHANGED <<sessions, version, max_attempts, delay, waits, slept>>

\* time.sleep(delay), then the next pass
PollSleep(s) ==
    /\ ppc[s] = "sleep"
    /\ waits' = [waits EXCEPT ![s] = @ + 1]
    /\ slept' = [slept EXCEPT ![s] = @ + delay[s]]
    /\ ppc' = [ppc EXCEPT ![s] = "query"]
    /\ UNCHANGED <<sessions, version, max_attempts, delay, attempt, queries, allRunning,
                   last, presult>>

\* The loop is exhausted: return {'status': 'TIMEOUT', ...}
PollTimeout(s) ==
    /\ ppc[s] = "query"
    /\ ~LoopContinues(attempt[s], max_attempts[s])
    /\ presult' = [presult EXCEPT ![s] =
                     Outcome("TIMEOUT", JNull, Str("Maximum polling attempts reached"))]
    /\ ppc' = [ppc EXCEPT ![s] = "done"]
    /\ UNCHANGED <<sessions, version, max_attempts, delay, attempt, queries, waits,
                   slept, allRunning, last>>

\* The poller's steps, for any session.
PollEnter ==
    /\ \E s \in sessions : PollStart(s)
    /\ UNCHANGED <<xvars, cvars, tvars, mvars, svars>>

PollAsk ==
    /\ \E s \in sessions : \E r \in Responses : PollQuery(s, r)
    /\ UNCHANGED <<xvars, cvars, tvars, mvars, svars>>

PollWait ==
    /\ \E s \in sessions : PollSleep(s)
    /\ UNCHANGED <<xvars, cvars, tvars, mvars, svars>>

PollGiveUp ==
    /\ \E s \in sessions : PollTimeout(s)
    /\ UNCHANGED <<xvars, cvars, tvars, mvars, svars>>

(***************************************************************************)
(* trigger_analysis: validate, submit, poll, reconstruct.                  *)
(***************************************************************************)
\* len(json.dumps(payload)) - len(image_base64): the characters that
\* {"input": "{\"image_data\":\"...\"}"} adds around the image text.
EnvelopeOverhead == 34

\* image_base64: None, or text of some length (0 is the empty text).
B64Inputs ==
    {[none |-> TRUE, len |-> 0]}
    \cup {[none |-> FALSE, len |-> n] :
            n \in {0, 1000, CEILING - EnvelopeOverhead, CEILING - EnvelopeOverhead + 1,
                   CEILING, CEILING + 1}}

\* As validate_input, without the comparison with the ceiling.
validate_input_NoCeiling(b) == ~b.none /\ b.len # 0

\* validate_input(image_base64): whether the input is accepted
validate_input(b) == ~b.none /\ b.len # 0 /\ b.len <= CEILING

\* v2 only: `if payload_size > 262000: ... return None` before the request
PayloadFits(ver, b) == ver = "v2" => b.len + EnvelopeOverhead <= CEILING

\* What requests.post and response.json() can do: raise, answer with an error
\* status, answer 200 with a body that is not JSON, with no executionArn, or
\* with one.
HttpResponses == {"exception", "500", "200 bad body", "200 no arn", "200 arn"}

NoTriple ==
    [kind |-> "None", visual_analysis |-> JNull, activity_pattern |-> JNull,
     productivity_assessment |-> JNull]
Triple(v, a, p) ==
    [kind |-> "triple", visual_analysis |-> v, activity_pattern |-> a,
     productivity_assessment |-> p]

\* `name in output`, for the types on which `in` is defined: a key of a dict,
\* an element of a list, a substring of a str.
Contains(output, name) ==
    IF output.t = "dict" THEN HasKey(output, <<name>>)
    ELSE IF output.t = "list" THEN \E i \in 1..Len(output.kids) : output.kids[i] = Str(name)
    ELSE Find(output.s, <<name>>) # 0

\* v4, one stage of the output: {} when the stage is absent, the extraction of
\* its raw_response when it has one, its 'output' (default {}) otherwise.
\* Subscripting an output that is not a dict, or calling get on a stage that
\* is not a dict, raises.
ProcessStage(output, name) ==
    IF ~Contains(output, name) THEN Returned(EmptyDict)
    ELSE IF ~IsDict(output) THEN Raised("TypeError")
    ELSE LET raw == GetKey(output, <<name>>) IN
         IF IsDict(raw) /\ HasKey(raw, <<"raw_response">>)
         THEN Returned(extract_json_from_markdown(GetKey(raw, <<"raw_response">>)).val)
         ELSE IF IsDict(raw) THEN Returned(GetOr(raw, <<"output">>, EmptyDict))
         ELSE Raised("AttributeError")

\* v4, the SUCCEEDED branch: the three stages in turn; any exception is taken
\* by the function's handler, which returns None.
ProcessOutputV4(output) ==
    IF output.t \in {"None", "int", "bool"} THEN NoTriple
    ELSE LET v == ProcessStage(output, StageNames[1])
             a == ProcessStage(output, StageNames[2])
             q == ProcessStage(output, StageNames[3])
         IN IF v.exc # "none" \/ a.exc # "none" \/ q.exc # "none" THEN NoTriple
            ELSE Triple(v.val, a.val, q.val)

\* v2, the SUCCEEDED branch: json.loads(status.get('output', '{}')) and three
\* output.get(stage, {}); any exception gives None.
ProcessOutputV2(raw) ==
    IF raw.t # "str" THEN NoTriple
    ELSE LET output == json_loads(raw.s) IN
         IF ~output.ok \/ ~IsDict(output.val) THEN NoTriple
         ELSE Triple(GetOr(output.val, <<StageNames[1]>>, EmptyDict),
                     GetOr(output.val, <<StageNames[2]>>, EmptyDict),
                     GetOr(output.val, <<StageNames[3]>>, EmptyDict))

\* As TriggerResult, without the test of the status: an outcome without an
\* output is read as the empty output.
TriggerResult_IgnoresStatus(ver, status) ==
    IF status.status = "SUCCEEDED"
    THEN IF ver = "v4" THEN ProcessOutputV4(status.output) ELSE ProcessOutputV2(status.output)
    ELSE Triple(EmptyDict, EmptyDict, EmptyDict)

\* What trigger_analysis returns for the poller's outcome.
TriggerResult(ver, status) ==
    IF status.status = "SUCCEEDED"
    THEN IF ver = "v4" THEN ProcessOutputV4(status.output) ELSE ProcessOutputV2(status.output)
    ELSE NoTriple

\* The st.error calls of trigger_analysis once the poller has returned with
\* status and the result is built: the handler's message when it is None, 'Analysis failed'
\* for any outcome other than SUCCEEDED.
TriggerErrors(status, result) ==
    IF status.status = "SUCCEEDED"
    THEN IF result.kind = "None" THEN <<"Error in analysis">> ELSE <<>>
    ELSE <<"Analysis failed">>

\* The message of validate_input, and in v2 of the payload size check.
PreflightErrors(ver, b) ==
    IF b.none \/ b.len = 0 THEN <<"No image data provided">>
    ELSE IF b.len > CEILING THEN <<"Image too large">>
    ELSE IF ~PayloadFits(ver, b) THEN <<"Payload size exceeds limit">>
    ELSE <<>>

\* The st.error calls for an answer of requests.post that starts no execution.
PostErrors(resp) ==
    IF resp = "500" THEN <<"API Error", "Response">>
    ELSE IF resp = "200 no arn" THEN <<"No execution ARN received">>
    ELSE IF resp = "200 arn" THEN <<>>
    ELSE <<"Error in analysis">>

TIdle == tpc = "idle" /\ tinput = [none |-> TRUE, len |-> 0] /\ posts = 0
         /\ http = "" /\ tresult = NoTriple /\ errors = <<>>

\* trigger_analysis(image_base64) is called; it polls with the default
\* max_attempts and delay.
TInit ==
    /\ tpc = "call" /\ tinput \in B64Inputs /\ posts = 0 /\ http = "" /\ tresult = NoTriple
    /\ errors = <<>>
    /\ PollFresh({1})
    /\ version \in Versions
    /\ max_attempts = [s \in {1} |-> DefaultMaxAttempts]
    /\ delay = [s \in {1} |-> DefaultDelay]

\* The checks before the request: validate_input, and in v2 the payload size.
TriggerPreflight ==
    /\ tpc = "call"
    /\ tpc' = IF validate_input(tinput) /\ PayloadFits(version, tinput) THEN "post" ELSE "done"
    /\ errors' = errors \o PreflightErrors(version, tinput)
    /\ UNCHANGED <<tinput, posts, http, tresult, xvars, cvars, pvars, mvars, svars>>

\* requests.post(...) and the reading of its answer; with an execution ARN the
\* poller is called.
TriggerPost ==
    /\ tpc = "post"
    /\ \E resp \in HttpResponses :
        /\ http' = resp
        /\ posts' = posts + 1
        /\ errors' = errors \o PostErrors(resp)
        /\ IF resp = "200 arn"
           THEN /\ tpc' = "poll"
                /\ ppc' = [ppc EXCEPT ![1] = "query"]
           ELSE /\ tpc' = "done"
                /\ UNCHANGED ppc
    /\ UNCHANGED <<tinput, tresult, xvars, cvars, sessions, version, max_attempts, delay,
                   attempt, queries, waits, slept, allRunning, last, presult, mvars, svars>>

\* The poller has returned: the result is built from its outcome.
TriggerFinish ==
    /\ tpc = "poll"
    /\ ppc[1] = "done"
    /\ tresult' = TriggerResult(version, presult[1])
    /\ errors' = errors \o TriggerErrors(presult[1], tresult')
    /\ tpc' = "done"
    /\ UNCHANGED <<tinput, posts, http, xvars, cvars, pvars, mvars, svars>>

(***************************************************************************)
(* main (streamlit_v2.py, streamlitwraw_v4.py): compress the upload,       *)
(* verify the format, and on the button encode, check the size and call    *)
(* trigger_analysis.                                                       *)
(***************************************************************************)
\* Encode sizes of the uploads main is exercised on: a small one, the largest
\* whose base64 text fits the ceiling, the next one, and one over the limit.
MainSizes == {150000, 196500, 196501, 250001}

\* The uploads: palette images, decodable or not, with the size of the
\* 500x500 encode and the size of every smaller or grayscale encode.
MainImages ==
    {[decodable |-> d, mode |-> "P", hasBBox |-> TRUE, enc500 |-> a,
      enc400 |-> b, enc300 |-> b, enc200 |-> b, encL |-> b] :
        d \in BOOLEAN, a \in MainSizes, b \in {150000, 250001}}

\* verify_png_format(buffer): Image.open(buffer).format == 'PNG'
verify_png_format(buffer) == buffer.kind = "buffer" /\ buffer.format = "PNG"

\* get_image_base64(file): the base64 text of file.getvalue()
get_image_base64(buffer) == [none |-> FALSE, len |-> Base64Len(buffer.size)]

\* main is not running.
MIdle == mpc = "idle" /\ verified = FALSE

\* A file has been uploaded; trigger_analysis has not been called.
MInit ==
    /\ mpc = "uploaded" /\ verified = FALSE
    /\ img \in MainImages /\ cbuf = NoBuffer /\ cpc = "idle"
    /\ tpc = "idle" /\ tinput = [none |-> TRUE, len |-> 0] /\ posts = 0
    /\ http = "" /\ tresult = NoTriple /\ errors = <<>>
    /\ PollFresh({1})
    /\ version \in Versions
    /\ max_attempts = [s \in {1} |-> DefaultMaxAttempts]
    /\ delay = [s \in {1} |-> DefaultDelay]

\* compressed_file = compress_image(uploaded_file); None (with the st.error
\* of compress_image's handler) ends the run.
MainCompress ==
    /\ mpc = "uploaded"
    /\ cbuf' = compress_image(img)
    /\ IF cbuf'.kind = "None"
       THEN mpc' = "done" /\ errors' = errors \o <<"Error compressing image">>
       ELSE mpc' = "verify" /\ UNCHANGED errors
    /\ UNCHANGED <<img, cpc, verified, tpc, tinput, posts, http, tresult,
                   xvars, pvars, svars>>

\* `if not verify_png_format(compressed_file): st.error(...); return`
MainVerify ==
    /\ mpc = "verify"
    /\ verified' = verify_png_format(cbuf)
    /\ IF verified'
       THEN mpc' = "shown" /\ UNCHANGED errors
       ELSE mpc' = "done" /\ errors' = errors \o <<"Failed to convert image to PNG format">>
    /\ UNCHANGED <<cvars, tpc, tinput, posts, http, tresult, xvars, pvars, svars>>

\* The button is pressed: the buffer is encoded, its base64 size compared with
\* the ceiling, and trigger_analysis called.
MainButton ==
    /\ mpc = "shown"
    /\ LET image_base64 == get_image_base64(cbuf) IN
       IF image_base64.none \/ image_base64.len = 0
       THEN /\ mpc' = "done" /\ errors' = errors \o <<"Failed to process the image">>
            /\ UNCHANGED <<tpc, tinput>>
       ELSE IF image_base64.len > CEILING
       THEN /\ mpc' = "done" /\ errors' = errors \o <<"Base64 encoded size exceeds limit">>
            /\ UNCHANGED <<tpc, tinput>>
       ELSE /\ mpc' = "analysis" /\ tpc' = "call" /\ tinput' = image_base64
            /\ UNCHANGED errors
    /\ UNCHANGED <<cvars, verified, posts, http, tresult, xvars, pvars, svars>>

\* trigger_analysis has returned: `if result: ... else: st.error(...)`
MainFinish ==
    /\ mpc = "analysis"
    /\ tpc = "done"
    /\ mpc' = "done"
    /\ errors' = IF tresult = NoTriple THEN errors \o <<"Failed to process the analysis">>
                 ELSE errors
    /\ UNCHANGED <<cvars, verified, tpc, tinput, posts, http, tresult, xvars, pvars, svars>>

(***************************************************************************)
(* The streaming stages of the workflow: the activity Lambda               *)
(* (activity_v2.py, productivity-activity-pattern-prod.py) and the         *)
(* assessment Lambda (assesment_v2.py,                                     *)
(* productivity-productivity-assessment-prod.py).  Each assembles the text *)
(* of one invoke_model_with_response_stream call.                          *)
(***************************************************************************)
\* The two deployments of the Lambdas: the *_v2.py files and the *-prod.py files.
LambdaVersions == {"v2", "prod"}

\* The most events the streams of one request deliver in total.
MaxEvents == 3

\* bool(v) in Python
Truthy(v) ==
    IF v.t \in {"None", "absent"} THEN FALSE
    ELSE IF v.t \in {"bool", "int"} THEN v.n # 0
    ELSE IF v.t = "str" THEN v.s # <<>>
    ELSE v.kids # <<>>

\* A stream event as the loop reads it: whether event.get("chunk") holds a
\* chunk, whether the chunk's bytes are UTF-8, and the characters of the bytes.
Event(chunk, utf8, bytes) == [chunk |-> chunk, utf8 |-> utf8, bytes |-> bytes]

\* The text deltas a model sends: together they spell {"a":1}.
DeltaTexts == {<<"{", "QUOTE", "a", "QUOTE", ":">>, <<"1">>, <<"}">>}

\* The payload of a contentBlockDelta chunk carrying the text.
DeltaPayload(text) ==
    JDict(<<JMember(<<"contentBlockDelta">>,
        JDict(<<JMember(<<"delta">>, JDict(<<JMember(<<"text">>, JStr(text))>>)),
                JMember(<<"contentBlockIndex">>, JNum(1))>>))>>)

\* Chunks without a text: the start of the message, and a contentBlockDelta
\* whose delta holds no text.
MessageStartPayload ==
    JDict(<<JMember(<<"messageStart">>, JDict(<<JMember(<<"role">>, Str("assistant"))>>))>>)
EmptyDeltaPayload ==
    JDict(<<JMember(<<"contentBlockDelta">>,
        JDict(<<JMember(<<"delta">>, EmptyDict)>>))>>)

\* What the stream can deliver next: an event without a chunk, a chunk whose
\* bytes are not UTF-8, a chunk whose bytes are not JSON, and the chunks above.
Events ==
    {Event(FALSE, TRUE, <<>>), Event(TRUE, FALSE, <<>>),
     Event(TRUE, TRUE, <<"Some", "SP", "text">>)}
    \cup {Event(TRUE, TRUE, json_dumps(p)) : p \in {MessageStartPayload, EmptyDeltaPayload}}
    \cup {Event(TRUE, TRUE, json_dumps(DeltaPayload(t))) : t \in DeltaTexts}

\* As EventText, without the test `if content_block_delta:`.
EventText_Unguarded(event) ==
    IF ~event.chunk THEN Returned(JStr(<<>>))
    ELSE IF ~event.utf8 THEN Raised("UnicodeDecodeError")
    ELSE LET chunk_json == json_loads(event.bytes) IN
         IF ~chunk_json.ok THEN Raised("JSONDecodeError")
         ELSE IF ~IsDict(chunk_json.val) THEN Raised("AttributeError")
         ELSE LET content_block_delta ==
                      GetOr(chunk_json.val, <<"contentBlockDelta">>, JNull) IN
              IF ~IsDict(content_block_delta) THEN Raised("AttributeError")
              ELSE LET delta == GetOr(content_block_delta, <<"delta">>, EmptyDict) IN
                   IF ~IsDict(delta) THEN Raised("AttributeError")
                   ELSE LET text == GetOr(delta, <<"text">>, JStr(<<>>)) IN
                        IF text.t # "str" THEN Raised("TypeError") ELSE Returned(text)

\* The body of `for event in stream` up to the text it appends: '' for an
\* event without a chunk or without a contentBlockDelta, the exception when
\* decode(), json.loads or a get on something that is not a dict raises.
EventText(event) ==
    IF ~event.chunk THEN Returned(JStr(<<>>))
    ELSE IF ~event.utf8 THEN Raised("UnicodeDecodeError")
    ELSE LET chunk_json == json_loads(event.bytes) IN
         IF ~chunk_json.ok THEN Raised("JSONDecodeError")
         ELSE IF ~IsDict(chunk_json.val) THEN Raised("AttributeError")
         ELSE LET content_block_delta ==
                      GetOr(chunk_json.val, <<"contentBlockDelta">>, JNull) IN
              IF ~Truthy(content_block_delta) THEN Returned(JStr(<<>>))
              ELSE IF ~IsDict(content_block_delta) THEN Raised("AttributeError")
              ELSE LET delta == GetOr(content_block_delta, <<"delta">>, EmptyDict) IN
                   IF ~IsDict(delta) THEN Raised("AttributeError")
                   ELSE LET text == GetOr(delta, <<"text">>, JStr(<<>>)) IN
                        IF text.t # "str" THEN Raised("TypeError") ELSE Returned(text)

\* As Accumulate, with a text equal to the end of the buffer dropped.
Accumulate_Dedup(full, text) ==
    IF text # <<>> /\ Len(full) >= Len(text)
       /\ SubSeq(full, Len(full) - Len(text) + 1, Len(full)) = text
    THEN full ELSE full \o text

\* full_response += text
Accumulate(full, text) == full \o text

\* As StreamStep, with `except Exception: continue` inside the loop.
StreamStep_SkipsMalformed(full, event) ==
    LET r == EventText(event) IN
    IF r.exc # "none" THEN Returned(JStr(full))
    ELSE Returned(JStr(Accumulate(full, r.val.s)))

\* One pass of the loop on the buffer full: the new buffer, or the exception
\* that leaves the loop.
StreamStep(full, event) ==
    LET r == EventText(event) IN
    IF r.exc # "none" THEN r
    ELSE Returned(JStr(Accumulate(full, r.val.s)))

\* str(e) for the exceptions of the loop
ExcText(e) ==
    IF e = "UnicodeDecodeError" THEN "'utf-8' codec can't decode byte 0xff in position 0"
    ELSE IF e = "JSONDecodeError" THEN "Expecting value: line 1 column 1 (char 0)"
    ELSE IF e = "AttributeError" THEN "object has no attribute 'get'"
    ELSE IF e = "TypeError" THEN "can only concatenate str"
    ELSE e

\* datetime.now().isoformat()
Now == Str("2024-01-01T00:00:00")

\* The result of the visual stage as the activity Lambda receives it: the
\* model's answer with a text, or a record without one.
VisualResults == {
    JDict(<<JMember(<<"output">>, JDict(<<JMember(<<"message">>,
        JDict(<<JMember(<<"content">>,
                        JList(<<JDict(<<JMember(<<"text">>, Str("Editor"))>>)>>))>>))>>))>>),
    EmptyDict }

\* holder.get('output', {}).get('message', {}).get('content', []) and, for a
\* list that is not empty, content[0].get('text', '')
MessageText(holder) ==
    LET message == GetOr(GetOr(holder, <<"output">>, EmptyDict), <<"message">>, EmptyDict)
        content == GetOr(message, <<"content">>, JList(<<>>))
    IN IF Truthy(content) /\ content.t = "list"
       THEN GetOr(content.kids[1], <<"text">>, JStr(<<>>)).s
       ELSE <<>>

\* content_text of analyze_productivity: the text of the visual stage's
\* answer, read under 'visual_analysis' (v2 only) or at the top of the event.
content_text(lamv, visual_data) ==
    IF ~IsDict(visual_data) THEN <<>>
    ELSE IF lamv = "v2" /\ HasKey(visual_data, <<"visual_analysis">>)
    THEN MessageText(GetKey(visual_data, <<"visual_analysis">>))
    ELSE IF HasKey(visual_data, <<"output">>) THEN MessageText(visual_data)
    ELSE <<>>

\* Stands for a stage whose Lambda raised instead of returning.
RaisedResult == [t |-> "raised", n |-> 0, s |-> <<>>, kids |-> <<>>]

\* analyze_productivity's return after the loop: the text under 'summary'
\* (v2) or 'analysis' (prod).
ActivityCompleted(lamv, vd, text) ==
    JDict(<<JMember(<<"productivity_analysis">>,
        IF lamv = "v2"
        THEN JDict(<<JMember(<<"summary">>, JStr(text)),
                     JMember(<<"timestamp">>, Now),
                     JMember(<<"status">>, Str("completed")),
                     JMember(<<"analysis_type">>, Str("ui_activity")),
                     JMember(<<"data_quality">>,
                             IF content_text(lamv, vd) # <<>> THEN Str("success")
                             ELSE Str("no_input_data"))>>)
        ELSE JDict(<<JMember(<<"analysis">>, JStr(text)),
                     JMember(<<"timestamp">>, Now),
                     JMember(<<"analysis_type">>, Str("productivity_assessment")),
                     JMember(<<"status">>, Str("completed"))>>))>>)

\* analyze_productivity's `except Exception as e`: a record with str(e) and
\* status 'failed'.  v2 wraps an exception of the call in 'Bedrock API error: '
\* and one of the loop in 'Stream processing error: ' first.
ActivityFailed(lamv, where, e) ==
    JDict(<<JMember(<<"productivity_analysis">>,
        IF lamv = "v2"
        THEN JDict(<<JMember(<<"error">>,
                             JStr(<<IF where = "invoke" THEN "Bedrock API error: "
                                    ELSE "Stream processing error: ", ExcText(e)>>)),
                     JMember(<<"timestamp">>, Now),
                     JMember(<<"status">>, Str("failed")),
                     JMember(<<"analysis_type">>, Str("ui_activity")),
                     JMember(<<"data_quality">>, Str("error"))>>)
        ELSE JDict(<<JMember(<<"error">>, Str(ExcText(e))),
                     JMember(<<"timestamp">>, Now),
                     JMember(<<"status">>, Str("failed"))>>))>>)

\* assess_productivity's return after the loop: json.loads(full_response), or
\* a record holding the text when it is not JSON.
AssessmentCompleted(lamv, text) ==
    LET parsed == json_loads(text) IN
    IF parsed.ok THEN parsed.val
    ELSE IF lamv = "v2"
    THEN JDict(<<JMember(<<"productivity_score">>, JNum(0)),
                 JMember(<<"factors_considered">>, JList(<<Str("Error processing response")>>)),
                 JMember(<<"error">>, JStr(text))>>)
    ELSE JDict(<<JMember(<<"error">>, Str("Failed to parse response as JSON")),
                 JMember(<<"raw_response">>, JStr(text))>>)

\* assess_productivity's `except Exception as e`: v2 returns a record with
\* str(e); prod prints and re-raises, and so does its lambda_handler.
AssessmentFailed(lamv, e) ==
    IF lamv = "v2"
    THEN JDict(<<JMember(<<"productivity_score">>, JNum(0)),
                 JMember(<<"factors_considered">>, JList(<<Str("Error in assessment")>>)),
                 JMember(<<"error">>, Str(ExcText(e)))>>)
    ELSE RaisedResult

\* What the Lambda of the stage returns when its loop ends with the text.
StageCompleted(st, lamv, vd, text) ==
    IF st = "activity" THEN ActivityCompleted(lamv, vd, text)
    ELSE AssessmentCompleted(lamv, text)

\* What the Lambda of the stage returns when the call (where = "invoke") or
\* the loop (where = "stream") raises e.
StageFailed(st, lamv, where, e) ==
    IF st = "activity" THEN ActivityFailed(lamv, where, e)
    ELSE AssessmentFailed(lamv, e)

SIdle ==
    /\ lam = "v2" /\ visual = EmptyDict /\ stage = "idle" /\ spc = "idle"
    /\ received = <<>> /\ full_response = <<>> /\ consumed = 0
    /\ activity_pattern = Absent /\ productivity_assessment = Absent
    /\ execution = ""

\* The visual stage has returned; the activity Lambda is about to be invoked.
SInit ==
    /\ lam \in LambdaVersions /\ visual \in VisualResults
    /\ stage = "activity" /\ spc = "invoke"
    /\ received = <<>> /\ full_response = <<>> /\ consumed = 0
    /\ activity_pattern = Absent /\ productivity_assessment = Absent
    /\ execution = "RUNNING"

\* The Lambda of the current stage returns (or raises) result.
StageReturn(result) ==
    /\ spc' = "returned"
    /\ IF stage = "activity"
       THEN activity_pattern' = result /\ UNCHANGED productivity_assessment
       ELSE productivity_assessment' = result /\ UNCHANGED activity_pattern

\* bedrock.invoke_model_with_response_stream(...) and response.get("body"):
\* the call raises, answers without a body, or answers with a stream.  Without
\* a body the loop is skipped and the Lambda returns at once.
StageInvoke ==
    /\ stage \in {"activity", "assessment"}
    /\ spc = "invoke"
    /\ \E answer \in {"raises", "no body", "body"} :
        IF answer = "raises"
        THEN StageReturn(StageFailed(stage, lam, "invoke", "ClientError"))
        ELSE IF answer = "no body"
        THEN StageReturn(StageCompleted(stage, lam, visual, <<>>))
        ELSE spc' = "stream" /\ UNCHANGED <<activity_pattern, productivity_assessment>>
    /\ UNCHANGED <<lam, visual, stage, received, full_response, consumed, execution,
                   xvars, cvars, pvars, tvars, mvars>>

\* The stream delivers an event and the loop body runs on it; an exception
\* ends the Lambda.
StageEvent ==
    /\ spc = "stream"
    /\ consumed < MaxEvents
    /\ \E event \in Events :
        LET step == StreamStep(full_response, event) IN
        /\ received' = Append(received, event)
        /\ consumed' = consumed + 1
        /\ IF step.exc # "none"
           THEN /\ StageReturn(StageFailed(stage, lam, "stream", step.exc))
                /\ UNCHANGED full_response
           ELSE /\ full_response' = step.val.s
                /\ UNCHANGED <<spc, activity_pattern, productivity_assessment>>
    /\ UNCHANGED <<lam, visual, stage, execution, xvars, cvars, pvars, tvars, mvars>>

\* The stream ends: the Lambda returns what it builds from the text.
StageEnd ==
    /\ spc = "stream"
    /\ StageReturn(StageCompleted(stage, lam, visual, full_response))
    /\ UNCHANGED <<lam, visual, stage, received, full_response, consumed, execution,
                   xvars, cvars, pvars, tvars, mvars>>

\* The workflow after a stage: the next stage is invoked on the result, and
\* after the last the execution succeeds.  A Lambda that raised fails its
\* task: the execution fails unless the state machine catches the error.
WorkflowNext ==
    /\ spc = "returned"
    /\ IF stage = "activity"
       THEN /\ stage' = "assessment" /\ spc' = "invoke"
            /\ received' = <<>> /\ full_response' = <<>>
            /\ UNCHANGED execution
       ELSE /\ stage' = "done" /\ spc' = "idle"
            /\ \E caught \in BOOLEAN :
                 execution' = IF productivity_assessment = RaisedResult /\ ~caught
                              THEN "FAILED" ELSE "SUCCEEDED"
            /\ UNCHANGED <<received, full_response>>
    /\ UNCHANGED <<lam, visual, consumed, activity_pattern, productivity_assessment,
                   xvars, cvars, pvars, tvars, mvars>>

\* The output of the execution: the results of the stages that returned one;
\* none for an execution that failed.
ExecutionOutput ==
    IF execution = "SUCCEEDED"
    THEN WorkflowOutput(visual, activity_pattern,
                        IF productivity_assessment = RaisedResult THEN Absent
                        ELSE productivity_assessment)
    ELSE Absent

(***************************************************************************)
(* Specifications: each component on its own inputs, the others idle.      *)
(***************************************************************************)
InitExtract == XInit /\ CIdle /\ PIdle /\ TIdle /\ MIdle /\ SIdle
NextExtract == Extract \/ ExtractAgain
SpecExtract == InitExtract /\ [][NextExtract]_vars

InitCompress == CInit /\ XIdle /\ PIdle /\ TIdle /\ MIdle /\ SIdle
NextCompress == Compress
SpecCompress == InitCompress /\ [][NextCompress]_vars

InitPoll == PInit /\ XIdle /\ CIdle /\ TIdle /\ MIdle /\ SIdle
NextPoll == PollEnter \/ PollAsk \/ PollWait \/ PollGiveUp
SpecPoll == InitPoll /\ [][NextPoll]_vars

\* A session that is called keeps running: describe_execution answers or
\* raises, time.sleep returns.
SpecPollFair == InitPoll /\ [][NextPoll]_vars /\ WF_vars(NextPoll)

InitPollConcurrent == PInitConcurrent /\ XIdle /\ CIdle /\ TIdle /\ MIdle /\ SIdle
SpecPollConcurrent == InitPollConcurrent /\ [][NextPoll]_vars

InitTrigger == TInit /\ XIdle /\ CIdle /\ MIdle /\ SIdle
NextTrigger == TriggerPreflight \/ TriggerPost \/ PollAsk \/ PollWait \/ PollGiveUp
               \/ TriggerFinish
SpecTrigger == InitTrigger /\ [][NextTrigger]_vars

InitStages == SInit /\ XIdle /\ CIdle /\ PIdle /\ TIdle /\ MIdle
NextStages == StageInvoke \/ StageEvent \/ StageEnd \/ WorkflowNext
SpecStages == InitStages /\ [][NextStages]_vars

InitMain == MInit /\ XIdle /\ SIdle
NextMain == MainCompress \/ MainVerify \/ MainButton \/ TriggerPreflight \/ TriggerPost
            \/ PollAsk \/ PollWait \/ PollGiveUp \/ TriggerFinish \/ MainFinish
SpecMain == InitMain /\ [][NextMain]_vars

Init == InitTrigger
Next == NextTrigger
Spec == SpecTrigger

(***************************************************************************)
(* Properties of the preprocessor (SpecCompress).                          *)
(***************************************************************************)

\* C1: compress_image returns a buffer whose base64 text is within the
\* 262,000-byte ceiling, or reports failure (returns None); in particular it
\* does not return the grayscale encode when that is still over the limit.
C1_BoundedOrFailure ==
    cpc = "done" => (cbuf.kind = "None" \/ Base64Len(cbuf.size) <= CEILING)

(***************************************************************************)
(* Properties of the poller (SpecPoll).                                    *)
(***************************************************************************)
\* The answer of the last query was a plain status, neither an exception nor
\* an answer without 'status'.
Answered(s) == last[s].exc = JNull /\ last[s].hasStatus

\* RUNNING on the first five ticks and SUCCEEDED on the sixth.
FiveRunningThenSucceeded(s) ==
    /\ ppc[s] = "done"
    /\ attempt[s] = 6
    /\ allRunning[s]
    /\ Answered(s)
    /\ last[s].status = "SUCCEEDED"

\* The output of a SUCCEEDED answer is one the version takes: any in v2; in
\* v4 none at all, or text that decodes as JSON.
OutputAccepted(s) ==
    version = "v4" =>
        \/ ~last[s].hasOutput
        \/ last[s].output.t = "str" /\ json_loads(last[s].output.s).ok

\* C2 as stated: five RUNNING then SUCCEEDED ends in Succeeded after exactly 6
\* queries and 6 x delay of waiting.
C2_SixIntervals ==
    \A s \in sessions :
        FiveRunningThenSucceeded(s) =>
            /\ presult[s].status = "SUCCEEDED"
            /\ queries[s] = 6
            /\ slept[s] = 6 * delay[s]

\* C2 amended: five RUNNING then SUCCEEDED (with an output the version takes)
\* ends in Succeeded after exactly 6 queries and exactly 5 waits, 5 x delay of
\* waiting: the poller returns on the sixth answer without sleeping.
C2_FiveIntervals ==
    \A s \in sessions :
        FiveRunningThenSucceeded(s) /\ OutputAccepted(s) =>
            /\ presult[s].status = "SUCCEEDED"
            /\ queries[s] = 6
            /\ waits[s] = 5
            /\ slept[s] = 5 * delay[s]

C2_Witness ==
    \E s \in sessions :
        FiveRunningThenSucceeded(s) /\ OutputAccepted(s) /\ delay[s] = 2 /\ slept[s] = 10

\* C3: when every query answers a non-terminal status, the session ends in
\* the local TIMEOUT outcome after exactly max_attempts queries; no session
\* ever makes more than max_attempts queries.
C3_TimeoutAfterMaxAttempts ==
    \A s \in sessions :
        /\ queries[s] <= max_attempts[s]
        /\ (ppc[s] = "done" /\ Answered(s) /\ last[s].status \in NonTerminal) =>
              /\ presult[s].status = "TIMEOUT"
              /\ queries[s] = max_attempts[s]
        /\ presult[s].status = "TIMEOUT" =>
              /\ queries[s] = max_attempts[s]
              /\ Answered(s) /\ last[s].status \in NonTerminal

C3_Witness ==
    \E s \in sessions :
        /\ ppc[s] = "done" /\ presult[s].status = "TIMEOUT"
        /\ max_attempts[s] >= 3 /\ queries[s] = max_attempts[s]

\* The outcome variants by the 'status' of the returned dict.
OutcomeTags == {"SUCCEEDED", "FAILED", "TIMED_OUT", "ABORTED", "TIMEOUT", "ERROR"}

\* C4: a session has an outcome exactly when it has returned, the outcome is
\* one of the variants, and once it is produced it does not change and no
\* further query or wait happens in the session.
C4_OneOutcome ==
    /\ [](\A s \in sessions :
            /\ (ppc[s] = "done") <=> (presult[s] # NoOutcome)
            /\ presult[s] # NoOutcome => presult[s].status \in OutcomeTags)
    /\ [][\A s \in sessions :
            presult[s] # NoOutcome =>
                /\ presult'[s] = presult[s]
                /\ queries'[s] = queries[s]
                /\ waits'[s] = waits[s]
                /\ slept'[s] = slept[s]]_vars

C4_Witness ==
    \E s \in sessions :
        /\ ppc[s] = "done" /\ presult[s].status = "FAILED"
        /\ attempt[s] >= 2 /\ attempt[s] < max_attempts[s]

\* C5: when describe_execution raises on tick k, the session ends on that
\* tick with 'ERROR' carrying the exception text; k queries were made and the
\* remaining attempts are not used.
C5_ExceptionEndsSession ==
    \A s \in sessions :
        last[s].exc # JNull =>
            /\ ppc[s] = "done"
            /\ presult[s] = Outcome("ERROR", JNull, last[s].exc)
            /\ queries[s] = attempt[s]

C5_Witness ==
    \E s \in sessions :
        /\ last[s].exc = Str("ConnectTimeout")
        /\ ppc[s] = "done" /\ presult[s].error = Str("ConnectTimeout")
        /\ queries[s] = 2 /\ max_attempts[s] > 2

\* What a failure marker and a non-terminal status do, in every version.
FailureAndOtherTransitions(s) ==
    /\ (Answered(s) /\ last[s].status \in FailureMarkers /\ ppc[s] # "idle") =>
          /\ ppc[s] = "done"
          /\ presult[s].status = last[s].status
          /\ presult[s].error =
                (IF last[s].hasError THEN last[s].error
                 ELSE IF version = "v4" THEN Str("Unknown error") ELSE JNull)
    /\ (Answered(s) /\ last[s].status \in NonTerminal /\ attempt[s] < max_attempts[s]) =>
          /\ ppc[s] \in {"sleep", "query"}
          /\ presult[s] = NoOutcome

\* C6 as stated: SUCCEEDED always ends the session in Succeeded carrying the
\* job's output; a failure marker ends it in the matching state with the
\* reported error; any other status leaves it polling while attempts remain.
C6_StatusDecides ==
    \A s \in sessions :
        /\ FailureAndOtherTransitions(s)
        /\ (Answered(s) /\ last[s].status = "SUCCEEDED") =>
              /\ ppc[s] = "done"
              /\ presult[s].status = "SUCCEEDED"

\* C6 amended: SUCCEEDED ends the session in Succeeded carrying the job's
\* output (v2: as received; v4: decoded from JSON, {} when the answer has no
\* output), except that in v4 an output that is not JSON-decodable text ends
\* the session in 'ERROR'; failure markers and other statuses as stated (an
\* unreported error detail is 'Unknown error' in v4, None in v2).
C6_StatusDecidesDecoded ==
    \A s \in sessions :
        /\ FailureAndOtherTransitions(s)
        /\ (Answered(s) /\ last[s].status = "SUCCEEDED") =>
              /\ ppc[s] = "done"
              /\ IF OutputAccepted(s)
                 THEN /\ presult[s].status = "SUCCEEDED"
                      /\ presult[s].output =
                            (IF version = "v2"
                             THEN (IF last[s].hasOutput THEN last[s].output ELSE JNull)
                             ELSE IF last[s].hasOutput THEN json_loads(last[s].output.s).val
                             ELSE EmptyDict)
                 ELSE presult[s].status = "ERROR"

C6_Witness ==
    \E s \in sessions :
        /\ version = "v4" /\ ppc[s] = "done" /\ Answered(s)
        /\ last[s].status = "SUCCEEDED" /\ last[s].hasOutput
        /\ presult[s].status = "SUCCEEDED"
        /\ HasKey(presult[s].output, <<"visual_analysis">>)

(***************************************************************************)
(* Properties of the extractor (SpecExtract).                              *)
(***************************************************************************)
\* No part of the text is a JSON value.
NoJsonAnywhere(text) ==
    \A i \in 1..Len(text) : \A j \in i..Len(text) : ~json_loads(SubSeq(text, i, j)).ok

\* Nothing can be recovered from the argument: it is neither a record nor
\* text holding a JSON value.
Unrecoverable(x) == ~IsDict(x) /\ (x.t # "str" \/ NoJsonAnywhere(x.s))

JsonTypes == {"dict", "list", "str", "int", "bool", "None"}

\* C7: for every argument the extractor returns a value and no exception
\* leaves it; an argument from which nothing can be recovered gives {}.
C7_NeverRaises ==
    xpc # "call" =>
        /\ ~xout.raised
        /\ xout.val.t \in JsonTypes
        /\ Unrecoverable(xin) => xout.val = EmptyDict

C7_Witness ==
    /\ xpc = "returned"
    /\ xin = JStr(<<"{", "FENCE", "}">>)
    /\ Unrecoverable(xin)
    /\ ExtractBody(xin).exc = "JSONDecodeError"
    /\ xout = [raised |-> FALSE, val |-> EmptyDict]

\* C8: a record argument is returned unchanged, so extracting again from an
\* extracted record changes nothing.
C8_Idempotent ==
    /\ (xpc # "call" /\ IsDict(xin)) => xout.val = xin
    /\ (xpc = "done" /\ IsDict(xout.val)) => xagain.val = xout.val

C8_Witness ==
    /\ xpc = "done"
    /\ xin.t = "str"
    /\ IsDict(xout.val) /\ xout.val # EmptyDict
    /\ xagain.val = xout.val

HasMarkerOrBrace(text) ==
    \/ \E k \in 1..Len(markers) : Find(text, markers[k]) # 0
    \/ Find(text, <<"}">>) # 0

\* The fenced text of every object, as an argument of the extractor.
FencedText == [X \in Objects |-> JStr(Fenced(X))]

\* C9: the text "```json", newline, the serialization of an object X, newline,
\* "```" extracts to X; text with no marker and no brace extracts to {}.
C9_FencedRoundTrip ==
    xpc # "call" =>
        /\ (xin.t = "str" /\ MatchAt(xin.s, markers[1], 1)) =>
              \A X \in Objects : xin = FencedText[X] => xout.val = X
        /\ (xin.t = "str" /\ ~HasMarkerOrBrace(xin.s)) => xout.val = EmptyDict

C9_Witness ==
    /\ xpc = "returned"
    /\ xin = JStr(Fenced(JDict(<<JMember(<<"a">>, JStr(<<"FENCE">>)), JMember(<<"b">>, JNum(1))>>)))
    /\ xout.val = JDict(<<JMember(<<"a">>, JStr(<<"FENCE">>)), JMember(<<"b">>, JNum(1))>>)

(***************************************************************************)
(* Properties of trigger_analysis (SpecTrigger).                           *)
(***************************************************************************)
\* The element the claim gives a stage of the workflow output.
StageElement(output, name) ==
    IF ~IsDict(output) \/ ~HasKey(output, <<name>>) THEN EmptyDict
    ELSE LET raw == GetKey(output, <<name>>) IN
         IF IsDict(raw) /\ HasKey(raw, <<"raw_response">>)
         THEN extract_json_from_markdown(GetKey(raw, <<"raw_response">>)).val
         ELSE IF IsDict(raw) /\ HasKey(raw, <<"output">>) THEN GetKey(raw, <<"output">>)
         ELSE EmptyDict

\* C10: after a Succeeded poll the v4 trigger_analysis returns the triple,
\* each element the extraction of the stage's raw_response when it has one,
\* the stage's 'output' payload otherwise, {} for an absent stage.
C10_TripleAfterSucceeded ==
    (tpc = "done" /\ version = "v4" /\ presult[1].status = "SUCCEEDED") =>
        /\ tresult.kind = "triple"
        /\ tresult.visual_analysis = StageElement(presult[1].output, StageNames[1])
        /\ tresult.activity_pattern = StageElement(presult[1].output, StageNames[2])
        /\ tresult.productivity_assessment = StageElement(presult[1].output, StageNames[3])

(***************************************************************************)
(* Properties of the streaming stages (SpecStages).                        *)
(***************************************************************************)
\* The events whose bytes cannot be decoded: not UTF-8, or not JSON.
MalformedEvents ==
    {Event(TRUE, FALSE, <<>>), Event(TRUE, TRUE, <<"Some", "SP", "text">>)}

\* The text delta an event carries, none for the other events.
DeltaOf(event) ==
    IF \E t \in DeltaTexts : event = Event(TRUE, TRUE, json_dumps(DeltaPayload(t)))
    THEN CHOOSE t \in DeltaTexts : event = Event(TRUE, TRUE, json_dumps(DeltaPayload(t)))
    ELSE <<>>

\* The deltas of the events, one after the other in the order of receipt.
RECURSIVE Deltas(_)
Deltas(events) ==
    IF events = <<>> THEN <<>> ELSE DeltaOf(Head(events)) \o Deltas(Tail(events))

WellFormed(events) == \A i \in 1..Len(events) : events[i] \notin MalformedEvents

\* The result of the stage that is running or has just returned.
CurrentResult == IF stage = "activity" THEN activity_pattern ELSE productivity_assessment

\* Whether the result of a stage reports an error: the Lambda raised, or the
\* record returned holds an 'error'.
ReportsError(st, result) ==
    \/ result = RaisedResult
    \/ IF st = "activity"
       THEN /\ HasKey(result, <<"productivity_analysis">>)
            /\ HasKey(GetKey(result, <<"productivity_analysis">>), <<"error">>)
            /\ GetKey(GetKey(result, <<"productivity_analysis">>), <<"status">>) = Str("failed")
       ELSE HasKey(result, <<"error">>)

\* The text the activity stage returns as its summary (v2) or analysis (prod).
ReturnedText ==
    GetOr(GetOr(activity_pattern, <<"productivity_analysis">>, EmptyDict),
          <<IF lam = "v2" THEN "summary" ELSE "analysis">>, JNull)

\* C11: the assembled text is the concatenation of the text deltas of the
\* events received, in the order of receipt, nothing reordered and nothing
\* dropped as a duplicate; with no event, and with no stream at all, it is the
\* empty text.  The activity stage returns that text, the assessment stage
\* what it decodes to.
C11_AssembledInOrder ==
    (spc \in {"stream", "returned"} /\ WellFormed(received)) =>
        /\ full_response = Deltas(received)
        /\ (spc = "returned" /\ stage = "activity" /\ ~ReportsError("activity", activity_pattern))
              => ReturnedText = JStr(Deltas(received))
        /\ (spc = "returned" /\ stage = "assessment" /\ received # <<>>) =>
              IF json_loads(Deltas(received)).ok
              THEN productivity_assessment = json_loads(Deltas(received)).val
              ELSE GetOr(productivity_assessment,
                         <<IF lam = "v2" THEN "error" ELSE "raw_response">>, JNull)
                   = JStr(Deltas(received))

\* The deltas {"a": then 1 then } are received in that order and the
\* assessment stage returns the record they spell.
C11_Witness ==
    /\ spc = "returned" /\ stage = "assessment"
    /\ Len(received) = 3
    /\ DeltaOf(received[1]) = <<"{", "QUOTE", "a", "QUOTE", ":">>
    /\ DeltaOf(received[2]) = <<"1">>
    /\ DeltaOf(received[3]) = <<"}">>
    /\ productivity_assessment = JDict(<<JMember(<<"a">>, JNum(1))>>)

\* Whether the text occurs in a string (or a key) anywhere in the value.
RECURSIVE Mentions(_, _)
Mentions(v, text) ==
    \/ Find(v.s, text) # 0
    \/ \E i \in 1..Len(v.kids) : Mentions(v.kids[i], text)

\* The events before the last one.
Front(events) == SubSeq(events, 1, Len(events) - 1)

\* C12: when an event of a stage's stream cannot be decoded, the assembly of
\* that stage stops there and the stage reports an error; the result holds
\* nothing of the text assembled from the events before it.
C12_MalformedAborts ==
    \A i \in 1..Len(received) :
        (received[i] \in MalformedEvents /\ stage \in {"activity", "assessment"}) =>
            /\ i = Len(received)
            /\ spc = "returned"
            /\ ReportsError(stage, CurrentResult)
            /\ Deltas(Front(received)) # <<>> =>
                   ~Mentions(CurrentResult, Deltas(Front(received)))

C12_Witness ==
    /\ spc = "returned" /\ stage = "activity"
    /\ Len(received) = 3
    /\ DeltaOf(received[1]) = <<"1">> /\ DeltaOf(received[2]) = <<"}">>
    /\ received[3] = Event(TRUE, FALSE, <<>>)
    /\ full_response = <<"1", "}">>
    /\ ReportsError("activity", activity_pattern)

\* Whether the assessment stage ended on an event that cannot be decoded.
AssessmentDecodeError ==
    /\ stage = "done" /\ received # <<>> /\ received[Len(received)] \in MalformedEvents

\* C13: a decode error in one stage aborts that stage only.  After a failed
\* activity stage the assessment stage still runs and returns its own result;
\* after a decode error in the assessment stage the execution still delivers
\* the visual and the activity results.
C13_OtherStagesUnaffected ==
    stage = "done" =>
        /\ productivity_assessment # Absent
        /\ AssessmentDecodeError =>
            /\ execution = "SUCCEEDED"
            /\ IsDict(ExecutionOutput)
            /\ GetOr(ExecutionOutput, <<StageNames[1]>>, Absent) = visual
            /\ GetOr(ExecutionOutput, <<StageNames[2]>>, Absent) = activity_pattern

(***************************************************************************)
(* Properties of the local checks of trigger_analysis (SpecTrigger).       *)
(***************************************************************************)
\* len(json.dumps(payload)) for the image text b: the envelope around it.
EnvelopeSize(b) == b.len + EnvelopeOverhead

\* C14: trigger_analysis compares the serialized envelope, overhead included,
\* with the ceiling before the request; an envelope over the ceiling is
\* rejected locally and requests.post is never called.
C14_EnvelopeChecked ==
    (~tinput.none /\ EnvelopeSize(tinput) > CEILING) => posts = 0

\* Whether the image text is missing, empty or longer than the ceiling.
BadImageText(b) == b.none \/ b.len = 0 \/ b.len > CEILING

\* C15: for a missing or empty image text, and for one longer than 262,000
\* bytes, trigger_analysis never posts the request and never queries a status;
\* it ends with one st.error message and returns None.
C15_RejectedLocally ==
    BadImageText(tinput) =>
        /\ posts = 0 /\ http = ""
        /\ queries[1] = 0 /\ ppc[1] = "idle"
        /\ tpc \in {"call", "done"}
        /\ tpc = "done" =>
              /\ tresult = NoTriple
              /\ errors = <<IF tinput.none \/ tinput.len = 0
                            THEN "No image data provided" ELSE "Image too large">>

C15_Witness ==
    /\ tpc = "done" /\ version = "v4"
    /\ tinput = [none |-> FALSE, len |-> CEILING + 1]
    /\ errors = <<"Image too large">> /\ posts = 0

(***************************************************************************)
(* Properties of main (SpecMain).                                          *)
(***************************************************************************)
\* C16: the buffer compress_image returns decodes as a PNG, and main verifies
\* that before it uses the buffer: trigger_analysis is called, and a request
\* posted, only for a buffer that verify_png_format has accepted.
C16_VerifiedBeforeUse ==
    /\ cbuf.kind = "buffer" => cbuf.format = "PNG"
    /\ (tpc # "idle" \/ posts > 0 \/ mpc \in {"shown", "analysis"}) =>
          verified /\ cbuf.kind = "buffer" /\ cbuf.format = "PNG"

C16_Witness ==
    /\ posts = 1 /\ http = "200 arn" /\ verified
    /\ cbuf.format = "PNG" /\ cbuf.size = 150000
    /\ cbuf.steps = <<"open", "convertRGB", "crop", "thumbnail500", "save500",
                      "copy", "thumbnail400", "save400">>

(***************************************************************************)
(* Properties of concurrent polling sessions (SpecPollConcurrent).         *)
(***************************************************************************)
\* Everything the poller holds for one session.
SessionState(s) ==
    [pc |-> ppc[s], attempt |-> attempt[s], queries |-> queries[s], waits |-> waits[s],
     slept |-> slept[s], allRunning |-> allRunning[s], last |-> last[s],
     result |-> presult[s], n |-> max_attempts[s], d |-> delay[s]]

\* A step of a session that runs alone, from state a to state b: entering the
\* loop, a query answered by some response (b.last), a sleep, or the timeout.
SoloStep(a, b) ==
    \/ a.pc = "idle" /\ b = [a EXCEPT !.pc = "query"]
    \/ /\ a.pc = "query" /\ a.attempt < a.n
       /\ b.last \in Responses
       /\ LET r == b.last
              tick == poll_tick(version, r) IN
            b = [a EXCEPT !.attempt = @ + 1, !.queries = @ + 1, !.last = r,
                          !.allRunning = IF tick.returns THEN @ ELSE @ /\ r.status = "RUNNING",
                          !.result = IF tick.returns THEN tick.result ELSE @,
                          !.pc = IF tick.returns THEN "done" ELSE "sleep"]
    \/ a.pc = "sleep" /\ b = [a EXCEPT !.waits = @ + 1, !.slept = @ + a.d, !.pc = "query"]
    \/ /\ a.pc = "query" /\ a.attempt >= a.n
       /\ b = [a EXCEPT !.pc = "done",
                        !.result = Outcome("TIMEOUT", JNull,
                                           Str("Maximum polling attempts reached"))]

\* C17: sessions polling concurrently for different executions do not affect
\* each other.  In every interleaving, each step changes one session only and
\* is a step that session takes when it runs alone on the same answers, so
\* its attempt counter, its outcome and its number of queries are those of
\* the run alone; a session that times out has made max_attempts queries.
C17_SessionsIndependent ==
    /\ [][\A s \in sessions :
            \/ SessionState(s)' = SessionState(s)
            \/ /\ SoloStep(SessionState(s), SessionState(s)')
               /\ \A t \in sessions \ {s} : SessionState(t)' = SessionState(t)]_vars
    /\ [](\A s \in sessions :
            /\ attempt[s] = queries[s]
            /\ (ppc[s] = "done" /\ presult[s].status = "TIMEOUT")
                  => queries[s] = max_attempts[s])

\* Both sessions have ended, one by timeout after its two queries and the
\* other with the answer to its second query.
C17_Witness ==
    /\ sessions = ConcurrentSessions
    /\ ppc[1] = "done" /\ ppc[2] = "done"
    /\ presult[1].status = "TIMEOUT" /\ queries[1] = 2
    /\ presult[2].status = "SUCCEEDED" /\ queries[2] = 2 /\ max_attempts[2] = 2

(***************************************************************************)
(* Termination of the poller (SpecPollFair).                               *)
(***************************************************************************)
\* C18: every polling session ends, whatever statuses the service answers:
\* it returns at a terminal status, at an exception, or when max_attempts
\* queries have been made, and it never makes more than max_attempts queries.
\* Nothing but the session's own steps ends it.
C18_Terminates ==
    /\ <>(\A s \in sessions : ppc[s] = "done")
    /\ [](\A s \in sessions : queries[s] <= max_attempts[s])
    /\ [][\A s \in sessions :
            (ppc[s] # "done" /\ ppc'[s] = "done") =>
                \/ queries'[s] = queries[s] + 1
                \/ queries[s] = max_attempts[s] /\ presult'[s].status = "TIMEOUT"]_vars

\* A session called with the largest max_attempts has ended at its deadline,
\* every answer but PENDING_REDRIVE ones being RUNNING.
C18_Witness ==
    /\ ppc[1] = "done" /\ presult[1].status = "TIMEOUT"
    /\ max_attempts[1] = MaxAttempts /\ queries[1] = MaxAttempts
    /\ ~allRunning[1]

(***************************************************************************)
(* Properties of the cascade (SpecCompress).                               *)
(***************************************************************************)
\* Whether the step was taken on the way to the returned buffer.
Took(step) == \E i \in 1..Len(cbuf.steps) : cbuf.steps[i] = step

\* The steps of the cascade in their order.
CascadeOrder ==
    <<"open", "convertRGB", "crop", "thumbnail500", "save500",
      "copy", "thumbnail400", "save400", "copy", "thumbnail300", "save300",
      "copy", "thumbnail200", "save200", "convertL", "saveL">>

\* Whether the steps are the cascade's steps in the cascade's order, some left out.
RECURSIVE InOrder(_, _)
InOrder(steps, order) ==
    IF steps = <<>> THEN TRUE
    ELSE IF order = <<>> THEN FALSE
    ELSE IF Head(steps) = Head(order) THEN InOrder(Tail(steps), Tail(order))
    ELSE InOrder(steps, Tail(order))

\* The encode a save step writes.
SavedSize(step) ==
    IF step = "save500" THEN img.enc500
    ELSE IF step = "save400" THEN img.enc400
    ELSE IF step = "save300" THEN img.enc300
    ELSE IF step = "save200" THEN img.enc200
    ELSE img.encL

\* C19: the steps of compress_image run in the cascade's order and a fallback
\* runs only when what precedes it is over the limit: the downscale loop
\* exactly when the 500x500 encode exceeds 250,000 bytes, the grayscale
\* conversion exactly when the three downscale encodes exceed it as well; the
\* buffer returned is the one written by the last step taken, and no step
\* follows an encode that is within the limit.
C19_CascadeInOrder ==
    (cpc = "done" /\ cbuf.kind = "buffer") =>
        /\ InOrder(cbuf.steps, CascadeOrder)
        /\ Took("save500")
        /\ Took("thumbnail400") <=> img.enc500 > SIZE_LIMIT
        /\ Took("convertL") <=>
              /\ img.enc500 > SIZE_LIMIT /\ img.enc400 > SIZE_LIMIT
              /\ img.enc300 > SIZE_LIMIT /\ img.enc200 > SIZE_LIMIT
        /\ cbuf.size = SavedSize(cbuf.steps[Len(cbuf.steps)])
        /\ \A i \in 1..Len(cbuf.steps) - 1 :
              cbuf.steps[i] \in {"save500", "save400", "save300", "save200"}
                  => SavedSize(cbuf.steps[i]) > SIZE_LIMIT

\* The 500x500 and 400x400 encodes are over the limit and the 300x300 one
\* fits: it is returned, and neither the 200x200 encode nor the grayscale
\* conversion is tried.
C19_Witness ==
    /\ cpc = "done" /\ img.enc500 = 250001 /\ img.enc400 = 250001 /\ img.enc300 = 250000
    /\ cbuf.size = 250000 /\ Took("save300") /\ ~Took("thumbnail200") /\ ~Took("convertL")

\* The steps from the first one of aggressive_compress on; none when it was
\* not called.
RECURSIVE AggressiveSteps(_)
AggressiveSteps(steps) ==
    IF steps = <<>> THEN <<>>
    ELSE IF Head(steps) = "copy" THEN steps
    ELSE AggressiveSteps(Tail(steps))

\* The steps of aggressive_compress that reach the given size.
TryUpTo(size) ==
    IF size = 400 THEN <<"copy", "thumbnail400", "save400">>
    ELSE IF size = 300
    THEN <<"copy", "thumbnail400", "save400", "copy", "thumbnail300", "save300">>
    ELSE <<"copy", "thumbnail400", "save400", "copy", "thumbnail300", "save300",
           "copy", "thumbnail200", "save200">>

\* C20: aggressive_compress tries 400x400, then 300x300, then 200x200, each on
\* a fresh copy of the image, and returns the first encode within the limit:
\* the 400 one when it fits, else the 300 one when it fits, else the 200 one
\* when it fits; it returns None, and compress_image goes on to grayscale,
\* exactly when all three are over the limit.
C20_FirstFitDescending ==
    (cpc = "done" /\ img.decodable /\ img.enc500 > SIZE_LIMIT) =>
        LET tried == AggressiveSteps(cbuf.steps) IN
        IF img.enc400 <= SIZE_LIMIT
        THEN tried = TryUpTo(400) /\ cbuf.size = img.enc400 /\ cbuf.mode # "L"
        ELSE IF img.enc300 <= SIZE_LIMIT
        THEN tried = TryUpTo(300) /\ cbuf.size = img.enc300 /\ cbuf.mode # "L"
        ELSE IF img.enc200 <= SIZE_LIMIT
        THEN tried = TryUpTo(200) /\ cbuf.size = img.enc200 /\ cbuf.mode # "L"
        ELSE /\ tried = TryUpTo(200) \o <<"convertL", "saveL">>
             /\ cbuf.mode = "L"

\* The 400x400 encode is over the limit, the 300x300 and the 200x200 encodes
\* both fit and differ: the 300x300 one is returned.
C20_Witness ==
    /\ cpc = "done" /\ img.enc500 = 250001 /\ img.enc400 = 250001
    /\ img.enc300 = 250000 /\ img.enc200 = 196500
    /\ cbuf.size = 250000 /\ cbuf.steps[Len(cbuf.steps)] = "save300"


\* C21: a palette (P) or alpha (RGBA) image is in RGB mode after the colour
\* mode normalisation: the PNG that compress_image encodes from it without the
\* grayscale step is an RGB one.
C21_NormalizedToRGB ==
    (/\ cpc = "done"
     /\ cbuf.kind = "buffer"
     /\ img.mode \in {"P", "RGBA"}
     /\ ~Took("convertL"))
    => /\ Took("convertRGB")
       /\ cbuf.mode = "RGB"


\* The events that carry no text: one without a chunk, a chunk without a
\* contentBlockDelta, and a contentBlockDelta whose delta holds no text.
SkippedEvents ==
    {Event(FALSE, TRUE, <<>>),
     Event(TRUE, TRUE, json_dumps(MessageStartPayload)),
     Event(TRUE, TRUE, json_dumps(EmptyDeltaPayload))}

\* The events without those that carry no text.
RECURSIVE Unskipped(_)
Unskipped(events) ==
    IF events = <<>> THEN <<>>
    ELSE (IF Head(events) \in SkippedEvents THEN <<>> ELSE <<Head(events)>>)
         \o Unskipped(Tail(events))

\* The text the loop assembles from the events, "raised" when it raises.
RECURSIVE Assembled(_, _)
Assembled(full, events) ==
    IF events = <<>> THEN JStr(full)
    ELSE LET step == StreamStep(full, Head(events)) IN
         IF step.exc # "none" THEN Str("raised")
         ELSE Assembled(step.val.s, Tail(events))

\* C22: an event without a chunk, without a contentBlockDelta or without a
\* text in its delta is skipped without error: the step that receives it
\* leaves the assembled text and the results as they are and the loop goes on
\* with the next event, so the stream assembles to what it assembles to
\* without such events.
C22_SkippedWithoutError ==
    /\ [][(/\ Len(received') = Len(received) + 1
           /\ received'[Len(received')] \in SkippedEvents)
          => /\ full_response' = full_response
             /\ spc' = "stream"
             /\ activity_pattern' = activity_pattern
             /\ productivity_assessment' = productivity_assessment]_vars
    /\ [](spc = "stream" => JStr(full_response) = Assembled(<<>>, Unskipped(received)))

\* A chunk without a contentBlockDelta came between two deltas, and the
\* activity stage returned the text of the two.
C22_Witness ==
    /\ spc = "returned" /\ stage = "activity"
    /\ Len(received) = 3
    /\ DeltaOf(received[1]) = <<"1">>
    /\ received[2] = Event(TRUE, TRUE, json_dumps(MessageStartPayload))
    /\ DeltaOf(received[3]) = <<"}">>
    /\ ReturnedText = JStr(<<"1", "}">>)


(***************************************************************************)
(* Properties of the marker loop and the fallback (SpecExtract).           *)
(***************************************************************************)
\* Whether the content taken for the marker parses, and what it parses to.
MarkerParses(text, marker) ==
    /\ Find(text, marker) # 0
    /\ json_loads(MarkerContent(text, marker, Find(text, marker))).ok
MarkerParse(text, marker) ==
    json_loads(MarkerContent(text, marker, Find(text, marker))).val

\* The result the priority order gives: the parse of the first marker of the
\* order whose content parses.
FirstParse(text, order) ==
    LET k == CHOOSE k \in 1..Len(order) :
                 /\ MarkerParses(text, order[k])
                 /\ \A j \in 1..(k - 1) : ~MarkerParses(text, order[j])
    IN MarkerParse(text, order[k])

\* The content is taken from the text after the first occurrence of the
\* marker, and holds no closing fence (fence markers) or blank line (others).
ContentCut(text, marker) ==
    LET at == Find(text, marker)
        rest == Drop(text, at + Len(marker))
        content == MarkerContent(text, marker, at)
    IN /\ content = <<>> \/ Find(rest, content) # 0
       /\ IF Head(marker) = "FENCE" THEN Find(content, <<"FENCE">>) = 0
          ELSE Find(content, <<"NL", "NL">>) = 0

\* The order the claim gives, and the order with the bare line "json".
ThreeMarkerOrder ==
    << <<"FENCE", "json", "NL">>, <<"FENCE", "python", "NL">>, <<"{">> >>
FourMarkerOrder ==
    << <<"FENCE", "json", "NL">>, <<"json", "NL">>, <<"FENCE", "python", "NL">>, <<"{">> >>

\* C23 as stated: the markers are tried in the order fenced json, fenced
\* python, bare brace, and the result is the parse of the first of them whose
\* content parses.
C23_ThreeMarkers ==
    (xpc # "call" /\ xin.t = "str") =>
        \A k \in 1..Len(ThreeMarkerOrder) :
            MarkerParses(xin.s, ThreeMarkerOrder[k]) =>
                xout.val = FirstParse(xin.s, ThreeMarkerOrder)

\* C23 amended: the markers are tried in the order fenced json, bare line
\* "json", fenced python, bare brace; the content of each is taken after its
\* first occurrence and cut at the closing fence or at the first blank line;
\* the result is the parse of the first of them whose content parses.
C23_FourMarkers ==
    (xpc # "call" /\ xin.t = "str") =>
        \A k \in 1..Len(FourMarkerOrder) :
            /\ Find(xin.s, FourMarkerOrder[k]) # 0 => ContentCut(xin.s, FourMarkerOrder[k])
            /\ MarkerParses(xin.s, FourMarkerOrder[k]) =>
                   xout.val = FirstParse(xin.s, FourMarkerOrder)

\* The line "json" is there but what follows it is not JSON: the python
\* fence after it decides.
C23_Witness ==
    /\ xpc = "returned"
    /\ xin = JStr(<<"json", "NL", ":", "1", "NL", "NL",
                    "FENCE", "python", "NL", "[", "1", "]", "NL", "FENCE">>)
    /\ ~MarkerParses(xin.s, <<"json", "NL">>)
    /\ xout.val = JList(<<JNum(1)>>)


\* The span from the first '{' to the last '}' of the text; none when either
\* is missing or the last '}' comes before the first '{'.
BraceSpan(text) ==
    LET f == Find(text, <<"{">>)
        l == RFind(text, <<"}">>)
    IN IF f # 0 /\ l # 0 /\ f < l THEN SubSeq(text, f, l) ELSE <<>>

\* C24: when no marker gives a content that parses, the result is the parse
\* of the span from the first '{' to the last '}' of the whole text when that
\* parses, and {} when the span is missing or does not parse.
C24_BraceFallback ==
    (/\ xpc # "call" /\ xin.t = "str"
     /\ \A k \in 1..Len(FourMarkerOrder) : ~MarkerParses(xin.s, FourMarkerOrder[k]))
    => /\ ~xout.raised
       /\ xout.val = IF json_loads(BraceSpan(xin.s)).ok
                     THEN json_loads(BraceSpan(xin.s)).val
                     ELSE EmptyDict

\* An object after prose: the content after the marker '{' does not parse
\* and the span from the first '{' to the last '}' does.
C24_Witness ==
    /\ xpc = "returned"
    /\ xin = JStr(<<"Some", "SP", "text", "SP", "{", "QUOTE", "a", "QUOTE", ":", "1", "}">>)
    /\ ~MarkerParses(xin.s, <<"{">>)
    /\ BraceSpan(xin.s) = <<"{", "QUOTE", "a", "QUOTE", ":", "1", "}">>
    /\ xout.val = JDict(<<JMember(<<"a">>, JNum(1))>>)


\* C25: the value the extractor returns is always a mapping, possibly empty:
\* never a sequence, a string, a number, a boolean or null.
C25_AlwaysMapping ==
    xpc # "call" => (~xout.raised /\ IsDict(xout.val))


\* C26: a text that is a JSON object on its own, without fence or prose,
\* extracts to that object, whatever the object: nested, or serialized with
\* blank lines inside.
C26_ObjectTextRoundTrip ==
    (/\ xpc # "call" /\ xin.t = "str"
     /\ json_loads(xin.s).ok /\ IsDict(json_loads(xin.s).val))
    => xout.val = json_loads(xin.s).val


(***************************************************************************)
(* Properties of the waits and the outcomes of the poller (SpecPoll).      *)
(***************************************************************************)
\* C27: the poller waits for exactly the configured interval between two
\* consecutive queries and at no other time: a session that made n queries
\* has waited n - 1 times, and not after its last query.
C27_WaitsOnlyBetweenTicks ==
    \A s \in sessions :
        /\ slept[s] = waits[s] * delay[s]
        /\ ppc[s] = "query" => waits[s] = queries[s]
        /\ (ppc[s] = "done" /\ queries[s] >= 1) => waits[s] = queries[s] - 1


\* The answer is a status that is not terminal, and no exception.
NonTerminalAnswer(r) == r.exc = JNull /\ r.hasStatus /\ r.status \in NonTerminal

\* The answer is a terminal status of the remote job.
TerminalAnswer(r) ==
    r.exc = JNull /\ r.hasStatus /\ r.status \in FailureMarkers \cup {"SUCCEEDED"}

\* C28: the local 'TIMEOUT' is produced only when max_attempts queries were
\* made, each answered with a status that is not terminal and none with an
\* exception; a job the service reports as timed out gives 'TIMED_OUT', another
\* tag; and a terminal status on the last allowed query gives the remote
\* outcome, not the local timeout.
C28_LocalTimeoutDistinct ==
    \A s \in sessions :
        /\ (ppc[s] \in {"sleep", "query"} /\ queries[s] >= 1) => NonTerminalAnswer(last[s])
        /\ presult[s].status = "TIMEOUT" =>
              /\ ppc[s] = "done" /\ attempt[s] = max_attempts[s]
              /\ queries[s] = max_attempts[s] /\ NonTerminalAnswer(last[s])
        /\ (ppc[s] = "done" /\ TerminalAnswer(last[s])) =>
              /\ presult[s].status # "TIMEOUT"
              /\ last[s].status \in FailureMarkers => presult[s].status = last[s].status
              /\ last[s].status = "SUCCEEDED" => presult[s].status \in {"SUCCEEDED", "ERROR"}
        /\ (ppc[s] = "done" /\ last[s].exc # JNull) => presult[s].status = "ERROR"

\* The service reports TIMED_OUT on the last allowed query, after a RUNNING.
C28_Witness ==
    \E s \in sessions :
        /\ ppc[s] = "done"
        /\ max_attempts[s] = 2 /\ queries[s] = 2
        /\ last[s].status = "TIMED_OUT"
        /\ presult[s].status = "TIMED_OUT"


(***************************************************************************)
(* Order of events in trigger_analysis (SpecTrigger).                      *)
(***************************************************************************)
\* C29: in trigger_analysis the submission comes first, then the polling,
\* then the result: the poller runs only after the one request was answered
\* with 200 and an execution ARN, a triple is returned only when the poller
\* ended in SUCCEEDED, and every other path returns None.
C29_SubmitPollResult ==
    /\ posts <= 1
    /\ (ppc[1] # "idle" \/ queries[1] > 0) =>
          (posts = 1 /\ http = "200 arn" /\ validate_input(tinput))
    /\ tpc # "done" => tresult = NoTriple
    /\ tresult # NoTriple =>
          /\ tresult.kind = "triple"
          /\ ppc[1] = "done" /\ presult[1].status = "SUCCEEDED"
          /\ \A name \in {"visual_analysis", "activity_pattern", "productivity_assessment"} :
                tresult[name].t \in JsonTypes
    /\ (tpc = "done" /\ (http # "200 arn" \/ presult[1].status # "SUCCEEDED")) =>
          tresult = NoTriple
    /\ (tpc = "done" /\ http # "200 arn") => (ppc[1] = "idle" /\ queries[1] = 0)

\* The request was answered with an ARN, the poller asked twice and ended in
\* SUCCEEDED, and the triple was returned.
C29_Witness ==
    /\ tpc = "done" /\ posts = 1 /\ http = "200 arn"
    /\ queries[1] = 2 /\ presult[1].status = "SUCCEEDED"
    /\ tresult.kind = "triple"


(***************************************************************************)
(* The output of a SUCCEEDED execution in the v4 poller (SpecPoll).        *)
(***************************************************************************)
\* The session's last answer is SUCCEEDED, in v4.
SucceededV4(s) == version = "v4" /\ Answered(s) /\ last[s].status = "SUCCEEDED"

\* The text decodes as JSON.
Decodable(output) == output.t = "str" /\ json_loads(output.s).ok

\* C30 as stated: in v4 a SUCCEEDED answer whose output does not decode as
\* JSON, or is absent or null, ends the session in 'ERROR'; a session that
\* ends in SUCCEEDED carries an output that was decoded.
C30_UndecodableOrAbsentIsError ==
    \A s \in sessions :
        /\ (SucceededV4(s) /\ (~last[s].hasOutput \/ ~Decodable(last[s].output))) =>
              (ppc[s] = "done" /\ presult[s].status = "ERROR")
        /\ (version = "v4" /\ presult[s].status = "SUCCEEDED") =>
              (last[s].hasOutput /\ Decodable(last[s].output)
               /\ presult[s].output = json_loads(last[s].output.s).val)

\* C30 amended: in v4 a SUCCEEDED answer whose output is there and does not
\* decode as JSON, or is null, ends the session in 'ERROR' at once; an answer
\* without an output ends it in SUCCEEDED with the empty record, the decoding
\* of the default '{}'; a session that ends in SUCCEEDED carries the decoding
\* of the output, or of the default.
C30_UndecodableIsError ==
    \A s \in sessions :
        /\ (SucceededV4(s) /\ last[s].hasOutput /\ ~Decodable(last[s].output)) =>
              /\ ppc[s] = "done" /\ presult[s].status = "ERROR"
              /\ presult[s].output = JNull
        /\ (SucceededV4(s) /\ ~last[s].hasOutput) =>
              /\ ppc[s] = "done" /\ presult[s].status = "SUCCEEDED"
              /\ presult[s].output = EmptyDict
        /\ (version = "v4" /\ presult[s].status = "SUCCEEDED") =>
              /\ SucceededV4(s)
              /\ last[s].hasOutput => Decodable(last[s].output)
              /\ presult[s].output =
                    json_loads(IF last[s].hasOutput THEN last[s].output.s
                               ELSE <<"{", "}">>).val

\* SUCCEEDED with an output that is not JSON ends the session in 'ERROR'.
C30_Witness ==
    \E s \in sessions :
        /\ SucceededV4(s) /\ ppc[s] = "done"
        /\ last[s].hasOutput /\ last[s].output = JStr(<<"Some", "SP", "text">>)
        /\ presult[s] = Outcome("ERROR", JNull, Str("Invalid JSON output"))

====
